---- MODULE Spec2Model ----
(***************************************************************************)
(* A model of the pipeline orchestration layer of genai-workshop.          *)
(*                                                                         *)
(* Every Python function is an operator with the function's name.  Text is *)
(* a sequence of characters; a long literal of the source is one           *)
(* character of the model.  A function takes the context c (the backend    *)
(* responses not yet consumed, the requests issued so far, and whether the *)
(* Whisper model is loaded) and returns a record                           *)
(*     [st, exc, val, c]                                                   *)
(* with st = "ok" (returned val), "raise" (raised exc) or "pend" (blocked  *)
(* in a backend request that has not been answered yet).  A call of a      *)
(* public method is started by one action and continues with one action    *)
(* per backend response; the method's operator is evaluated on the         *)
(* responses received so far.  Inside an operator the steps of the         *)
(* function are local operators, each taking the outcome of the call       *)
(* before it; they are listed last step first.                             *)
(***************************************************************************)
EXTENDS Integers, Sequences, FiniteSets, TLC

VARIABLES
    obj,      \* the constructed pipeline object (class, resolved model names)
    loaded,   \* Transcriber._model is not None
    call,     \* the method call in progress or last finished: op, args, loaded at entry
    resp,     \* the backend responses this call has received, in order
    log,      \* the backend requests this call has issued, in order
    out       \* the call's outcome: [st, exc, val]

vars == <<obj, loaded, call, resp, log, out>>

---------------------------------------------------------------------------
(* Bounds of the model *)

\* the longest segment list the transcription backend reports
MaxSegments == 1
\* the longest question list given to ScreenQA.interactive_qa
MaxQuestions == 2
\* the most chunks a streamed chat response delivers
MaxChunks == 2
\* the longest segment list given to chunk_transcript_by_segments, and the
\* latest time (in seconds) a segment starts or ends at
MaxChunkSegments == 3
MaxTime == 2
\* the longest transcript (in characters) and the largest max_tokens given to
\* chunk_transcript_by_tokens
MaxTranscriptLen == 4
MaxTokens == 4
\* utils/config.py MAX_TRANSCRIPT_TOKENS, read from the environment (default
\* 2000); set small so that a few words make several chunks
MAX_TRANSCRIPT_TOKENS == 3

(* Program constants *)
MAX_AUDIO_FILE_SIZE_MB == 500
MAX_IMAGE_FILE_SIZE_MB == 10

None == "None"
DEFAULT_LLM_MODEL == "llama3.2:latest"
DEFAULT_VISION_MODEL == "moondream:latest"
DEFAULT_WHISPER_MODEL == "tiny"
SUPPORTED_AUDIO_FORMATS == {".wav", ".mp3", ".m4a", ".flac"}
SUPPORTED_IMAGE_FORMATS == {".jpg", ".jpeg", ".png", ".heic", ".webp"}

\* Python's `a or b` on an optional model name
Or(a, b) == IF a \in {None, ""} THEN b ELSE a

\* an optional text that is None
NoneText == <<None>>

\* Python's `not t` on an optional text
Not(t) == t \in {NoneText, <<>>}

\* d[key] = value on a dict
SetItem(d, key, value) == (key :> value) @@ d

---------------------------------------------------------------------------
(* Text *)

IsSpace(ch) == ch \in {" ", "\n", "\n\n"}

RECURSIVE SplitFrom(_, _, _)
SplitFrom(t, i, cur) ==
    IF i > Len(t) THEN (IF cur = <<>> THEN <<>> ELSE <<cur>>)
    ELSE IF IsSpace(t[i])
         THEN (IF cur = <<>> THEN <<>> ELSE <<cur>>) \o SplitFrom(t, i + 1, <<>>)
         ELSE SplitFrom(t, i + 1, Append(cur, t[i]))

\* str.split(): the maximal runs of non-whitespace characters
split(t) == SplitFrom(t, 1, <<>>)

RECURSIVE join(_, _)
\* sep.join(parts)
join(sep, parts) ==
    IF parts = <<>> THEN <<>>
    ELSE IF Len(parts) = 1 THEN parts[1]
    ELSE parts[1] \o sep \o join(sep, Tail(parts))

RECURSIVE lstrip(_)
lstrip(t) == IF t # <<>> /\ IsSpace(t[1]) THEN lstrip(Tail(t)) ELSE t

RECURSIVE rstrip(_)
rstrip(t) ==
    IF t # <<>> /\ IsSpace(t[Len(t)]) THEN rstrip(SubSeq(t, 1, Len(t) - 1)) ELSE t

\* str.strip()
strip(t) == rstrip(lstrip(t))

---------------------------------------------------------------------------
(* Outcomes of a function, and the backend *)

NoExc == [type |-> "", msg |-> <<>>]

Ok(c, v) == [st |-> "ok", exc |-> NoExc, val |-> v, c |-> c]

Raise(c, type, msg) ==
    [st |-> "raise", exc |-> [type |-> type, msg |-> msg], val |-> <<>>, c |-> c]

\* a backend response: the value returned, or the failure of the request
OkResp(v) == [ok |-> TRUE, val |-> v]
FailResp == [ok |-> FALSE, val |-> <<"backend error">>]

\* One request to a backend library (ollama, mlx_whisper): logged, then
\* answered by the next response, which returns a value or raises.
Backend(c, api, model, arg) ==
    LET req == [api |-> api, model |-> model, arg |-> arg]
        c1 == [c EXCEPT !.log = Append(@, req)]
    IN  IF c.resp = <<>>
        THEN [st |-> "pend", exc |-> NoExc, val |-> <<>>, c |-> c1]
        ELSE LET r == Head(c.resp)
                 c2 == [c1 EXCEPT !.resp = Tail(@)]
             IN  IF r.ok THEN Ok(c2, r.val)
                 ELSE Raise(c2, "ResponseError", r.val)

---------------------------------------------------------------------------
(* src/llm/prompts.py *)

PROMPTS ==
    [summary |->
        [system |-> <<"You are a helpful assistant that creates concise, accurate summaries.">>,
         user |-> <<"Summarize the following transcript in 3-5 bullet points:", "\n\n", "{transcript}">>],
     detailed_summary |->
        [system |-> <<"You are a helpful assistant that creates detailed, comprehensive summaries.">>,
         user |-> <<"Create a detailed summary of the following transcript.", "\n\n", "{transcript}">>],
     action_items |->
        [system |-> <<"You are a helpful assistant that extracts action items from transcripts.">>,
         user |-> <<"Extract all action items from the following transcript.", "\n\n", "{transcript}">>],
     ocr_cleanup |->
        [system |-> <<"You are a helpful assistant that cleans and structures OCR text.">>,
         user |-> <<"Clean and structure the following OCR text.", "\n\n", "{ocr_text}">>],
     receipt_extraction |->
        [system |-> <<"You are a helpful assistant that extracts structured data from receipts.">>,
         user |-> <<"Extract the following information from this receipt text in JSON format", "\n\n", "{receipt_text}">>],
     image_description |->
        [system |-> <<"You are a helpful assistant that describes images in detail.">>,
         user |-> <<"Based on this image description: '", "{image_description}", "', provide a detailed natural language explanation">>],
     diagram_explanation |->
        [system |-> <<"You are a helpful assistant that explains diagrams and visual content.">>,
         user |-> <<"Based on this diagram description: '", "{diagram_description}", "', provide a clear explanation">>],
     screen_qa |->
        [system |-> <<"You are a helpful assistant that answers questions about screenshots and UI elements.">>,
         user |-> <<"Based on this screenshot description: '", "{screenshot_description}", "', answer the following question: ", "{question}">>],
     meeting_minutes |->
        [system |-> <<"You are a helpful assistant that creates structured meeting minutes.">>,
         user |-> <<"Create structured meeting minutes from the following transcript. Format the output as JSON", "Transcript:", "\n", "{transcript}">>]]

\* get_prompt(prompt_type); every caller passes a key of the catalog
get_prompt(prompt_type) == PROMPTS[prompt_type]

RECURSIVE Subst(_, _)
\* str.format(**kw): every placeholder that kw names is replaced by its value
Subst(t, kw) ==
    IF t = <<>> THEN <<>>
    ELSE (IF Head(t) \in DOMAIN kw THEN kw[Head(t)] ELSE <<Head(t)>>)
         \o Subst(Tail(t), kw)

\* PromptTemplate.format(**kwargs) -> (system, user)
format(template, kw) ==
    [system |-> Subst(template.system, kw), user |-> Subst(template.user, kw)]

---------------------------------------------------------------------------
(* src/llm/client.py *)

\* OllamaClient.__init__
OllamaClient(model) == [model |-> Or(model, DEFAULT_LLM_MODEL)]

\* OllamaClient.check_model_available: a failing list request answers False
check_model_available(self, c, model) ==
    LET listed(r) ==
            IF r.st = "pend" THEN r
            ELSE IF r.st = "raise" THEN Ok(r.c, FALSE)
            ELSE Ok(r.c, Or(model, self.model) \in r.val)
    IN  listed(Backend(c, "ollama.list", None, <<>>))

\* generate whose availability query is not guarded by an except clause
generate_AvailabilityUncaught(self, c, prompt, system, model) ==
    LET model_name == Or(model, self.model)
        messages == (IF system # <<>>
                     THEN <<[role |-> "system", content |-> system]>> ELSE <<>>)
                    \o <<[role |-> "user", content |-> prompt]>>
        chatted(r) ==
            IF r.st = "pend" THEN r
            ELSE IF r.st = "raise"
            THEN Raise(r.c, "ModelError", <<"Text generation failed: ">> \o r.exc.msg)
            ELSE Ok(r.c, r.val)
        checked(a) ==
            IF a.st # "ok" THEN a
            ELSE IF model_name \notin a.val
            THEN Raise(a.c, "ModelError",
                       <<"Model '", model_name, "' is not available. ",
                         "Install it with: ollama pull ", model_name>>)
            ELSE chatted(Backend(a.c, "ollama.chat", model_name, messages))
    IN  checked(Backend(c, "ollama.list", None, <<>>))

\* generate that issues a failed chat request a second time
generate_RetriesOnce(self, c, prompt, system, model) ==
    LET model_name == Or(model, self.model)
        messages == (IF system # <<>>
                     THEN <<[role |-> "system", content |-> system]>> ELSE <<>>)
                    \o <<[role |-> "user", content |-> prompt]>>
        again(r) ==
            IF r.st = "pend" THEN r
            ELSE IF r.st = "raise"
            THEN Raise(r.c, "ModelError", <<"Text generation failed: ">> \o r.exc.msg)
            ELSE Ok(r.c, r.val)
        chatted(r) ==
            IF r.st = "pend" THEN r
            ELSE IF r.st = "raise"
            THEN again(Backend(r.c, "ollama.chat", model_name, messages))
            ELSE Ok(r.c, r.val)
        checked(a) ==
            IF a.st = "pend" THEN a
            ELSE IF ~a.val
            THEN Raise(a.c, "ModelError",
                       <<"Model '", model_name, "' is not available. ",
                         "Install it with: ollama pull ", model_name>>)
            ELSE chatted(Backend(a.c, "ollama.chat", model_name, messages))
    IN  checked(check_model_available(self, c, model_name))

\* OllamaClient.generate(prompt, system, model), stream=False
generate(self, c, prompt, system, model) ==
    LET model_name == Or(model, self.model)
        messages == (IF system # <<>>
                     THEN <<[role |-> "system", content |-> system]>> ELSE <<>>)
                    \o <<[role |-> "user", content |-> prompt]>>
        chatted(r) ==
            IF r.st = "pend" THEN r
            ELSE IF r.st = "raise"
            THEN Raise(r.c, "ModelError", <<"Text generation failed: ">> \o r.exc.msg)
            ELSE Ok(r.c, r.val)
        checked(a) ==
            IF a.st = "pend" THEN a
            ELSE IF ~a.val
            THEN Raise(a.c, "ModelError",
                       <<"Model '", model_name, "' is not available. ",
                         "Install it with: ollama pull ", model_name>>)
            ELSE chatted(Backend(a.c, "ollama.chat", model_name, messages))
    IN  checked(check_model_available(self, c, model_name))

\* One item pulled from a streamed chat response: a chunk object with the
\* attributes it has and the text it carries, or the end of the stream.
Chunk(attrs, content) == [end |-> FALSE, attrs |-> attrs, content |-> content]
EndOfStream == [end |-> TRUE, attrs |-> {}, content |-> <<>>]

RECURSIVE stream_response(_, _, _)
\* OllamaClient._stream_response, consumed to its end: the fragments yielded
\* after n chunks, or ModelError when pulling from the response raises
stream_response(c, n, yielded) ==
    LET pulled(r) ==
            IF r.st = "pend" THEN r
            ELSE IF r.st = "raise"
            THEN Raise(r.c, "ModelError", <<"Streaming failed: ">> \o r.exc.msg)
            ELSE IF r.val.end THEN Ok(r.c, yielded)
            ELSE stream_response(r.c, n + 1,
                     IF /\ "message" \in r.val.attrs
                        /\ "content" \in r.val.attrs
                        /\ r.val.content # <<>>
                     THEN Append(yielded, r.val.content)
                     ELSE yielded)
    IN  pulled(Backend(c, "stream.next", None, n))

\* list(OllamaClient.generate(prompt, system, model, stream=True))
generate_streaming(self, c, prompt, system, model) ==
    LET model_name == Or(model, self.model)
        messages == (IF system # <<>>
                     THEN <<[role |-> "system", content |-> system]>> ELSE <<>>)
                    \o <<[role |-> "user", content |-> prompt]>>
        chatted(r) ==
            IF r.st = "pend" THEN r
            ELSE IF r.st = "raise"
            THEN Raise(r.c, "ModelError", <<"Text generation failed: ">> \o r.exc.msg)
            ELSE stream_response(r.c, 0, <<>>)
        checked(a) ==
            IF a.st = "pend" THEN a
            ELSE IF ~a.val
            THEN Raise(a.c, "ModelError",
                       <<"Model '", model_name, "' is not available. ",
                         "Install it with: ollama pull ", model_name>>)
            ELSE chatted(Backend(a.c, "ollama.chat(stream=True)", model_name, messages))
    IN  checked(check_model_available(self, c, model_name))

\* client.generate(prompt=user, system=system) on a formatted template
generate_prompt(self, c, p) == generate(self, c, p.user, p.system, None)

---------------------------------------------------------------------------
(* src/llm/formatters.py *)

\* format_markdown_summary(text, title)
format_markdown_summary(text, title) ==
    <<"# ", title, "\n\n">> \o text \o <<"\n">>

---------------------------------------------------------------------------
(* src/llm/formatters.py: extract_json and the structured formatters       *)
(* A JSON text is made of the characters "{", "}", "[", "]", ",", a key    *)
(* with its colon, a number, the code fence (three backquotes, written as  *)
(* "<fence>") and its tag "json".  A parsed value carries its Python type; *)
(* a dict keeps its keys in insertion order.                               *)

Dict(keys, items) == [kind |-> "dict", keys |-> keys, items |-> items]
List(elems) == [kind |-> "list", elems |-> elems]
IntValue(n) == [kind |-> "int", v |-> n]
StrValue(t) == [kind |-> "str", v |-> t]

\* isinstance(data, dict)
IsDict(data) == data.kind = "dict"

\* d[key] = value on a parsed dict
DictSet(d, key, value) ==
    Dict(IF key \in DOMAIN d.items THEN d.keys ELSE Append(d.keys, key),
         (key :> value) @@ d.items)

\* the key characters and number characters of the JSON texts
KeyName == ("\"title\":" :> "title") @@ ("\"attendees\":" :> "attendees")
NumberValue == ("1" :> 1) @@ ("2" :> 2)

RECURSIVE SkipSpace(_, _)
\* \s* from position i: the first position that holds no whitespace
SkipSpace(t, i) == IF i <= Len(t) /\ IsSpace(t[i]) THEN SkipSpace(t, i + 1) ELSE i

\* the character at position i, or None past the end
At(t, i) == IF i <= Len(t) THEN t[i] ELSE None

Closer(ch) == IF ch = "{" THEN "}" ELSE "]"

RECURSIVE MatchGroup(_, _, _, _)
\* (\{.*?\}|\[.*?\]) from the opening character at p: the position of the
\* first closing character at or after q that lets the rest of the pattern
\* match (when fenced: \s* and the closing fence), or 0
MatchGroup(t, p, q, fenced) ==
    IF q > Len(t) THEN 0
    ELSE IF t[q] = Closer(t[p]) /\ (fenced => At(t, SkipSpace(t, q + 1)) = "<fence>")
    THEN q
    ELSE MatchGroup(t, p, q + 1, fenced)

\* group 1 of a match that opens the group at p, or <<>> when there is none
GroupAt(t, p, fenced) ==
    IF At(t, p) \in {"{", "["} /\ MatchGroup(t, p, p + 1, fenced) # 0
    THEN SubSeq(t, p, MatchGroup(t, p, p + 1, fenced))
    ELSE <<>>

\* a match of the fenced pattern <fence>(?:json)?\s*(\{.*?\}|\[.*?\])\s*<fence>
\* that starts at i
FencedAt(t, i) ==
    IF t[i] # "<fence>" THEN <<>>
    ELSE GroupAt(t, SkipSpace(t, IF At(t, i + 1) = "json" THEN i + 2 ELSE i + 1), TRUE)

RECURSIVE search(_, _, _)
\* re.search from position i: group 1 of the leftmost match, <<>> for no match
search(t, i, fenced) ==
    LET found(g) == IF g # <<>> THEN g ELSE search(t, i + 1, fenced)
    IN  IF i > Len(t) THEN <<>>
        ELSE found(IF fenced THEN FencedAt(t, i) ELSE GroupAt(t, i, FALSE))

NoParse == [ok |-> FALSE, val |-> IntValue(0), next |-> 0]
Parsed(v, next) == [ok |-> TRUE, val |-> v, next |-> next]

RECURSIVE ParseValue(_, _)
RECURSIVE ParseMembers(_, _, _)
RECURSIVE ParseElements(_, _, _)

\* the members of an object from the key at i, into d
ParseMembers(t, i, d) ==
    LET after(n, d1) ==
            IF At(t, n) = "}" THEN Parsed(d1, n + 1)
            ELSE IF At(t, n) = "," THEN ParseMembers(t, SkipSpace(t, n + 1), d1)
            ELSE NoParse
        member(v) ==
            IF ~v.ok THEN NoParse
            ELSE after(SkipSpace(t, v.next), DictSet(d, KeyName[t[i]], v.val))
    IN  IF At(t, i) \notin DOMAIN KeyName THEN NoParse
        ELSE member(ParseValue(t, i + 1))

\* the elements of an array from position i, into elems
ParseElements(t, i, elems) ==
    LET after(n, e1) ==
            IF At(t, n) = "]" THEN Parsed(List(e1), n + 1)
            ELSE IF At(t, n) = "," THEN ParseElements(t, n + 1, e1)
            ELSE NoParse
        element(v) ==
            IF ~v.ok THEN NoParse
            ELSE after(SkipSpace(t, v.next), Append(elems, v.val))
    IN  element(ParseValue(t, i))

\* one JSON value from position i (leading whitespace skipped)
ParseValue(t, i) ==
    LET value(p) ==
            IF At(t, p) \in DOMAIN NumberValue THEN Parsed(IntValue(NumberValue[t[p]]), p + 1)
            ELSE IF At(t, p) = "{"
            THEN (IF At(t, SkipSpace(t, p + 1)) = "}"
                  THEN Parsed(Dict(<<>>, <<>>), SkipSpace(t, p + 1) + 1)
                  ELSE ParseMembers(t, SkipSpace(t, p + 1), Dict(<<>>, <<>>)))
            ELSE IF At(t, p) = "["
            THEN (IF At(t, SkipSpace(t, p + 1)) = "]"
                  THEN Parsed(List(<<>>), SkipSpace(t, p + 1) + 1)
                  ELSE ParseElements(t, p + 1, <<>>))
            ELSE NoParse
    IN  value(SkipSpace(t, i))

\* json.loads(s): one value and nothing but whitespace after it
json_loads(c, s) ==
    LET loaded_value(v) ==
            IF v.ok /\ SkipSpace(s, v.next) > Len(s) THEN Ok(c, v.val)
            ELSE Raise(c, "JSONDecodeError", <<"Expecting value">>)
    IN  loaded_value(ParseValue(s, 1))

\* extract_json(text)
extract_json(c, text) ==
    LET decoded(r) ==
            IF r.st = "raise"
            THEN Raise(c, "ValidationError",
                       <<"Failed to extract valid JSON from text: ">> \o r.exc.msg)
            ELSE r
        direct(json_match) ==
            IF json_match # <<>> THEN json_match ELSE strip(text)
        fenced(json_match) ==
            IF json_match # <<>> THEN json_match ELSE direct(search(text, 1, FALSE))
    IN  decoded(json_loads(c, fenced(search(text, 1, TRUE))))

RECURSIVE str(_)
RECURSIVE StrItems(_, _)
RECURSIVE StrElems(_)

\* the items of a dict in str(): 'key': value, ...
StrItems(d, keys) ==
    IF keys = <<>> THEN <<>>
    ELSE <<"'", Head(keys), "': ">> \o str(d.items[Head(keys)])
         \o (IF Len(keys) > 1 THEN <<", ">> ELSE <<>>) \o StrItems(d, Tail(keys))

StrElems(elems) ==
    IF elems = <<>> THEN <<>>
    ELSE str(Head(elems)) \o (IF Len(elems) > 1 THEN <<", ">> ELSE <<>>)
         \o StrElems(Tail(elems))

\* str(value) of a parsed value (a str inside a container shows its quotes)
str(value) ==
    CASE value.kind = "int" -> <<ToString(value.v)>>
      [] value.kind = "str" -> <<"'">> \o value.v \o <<"'">>
      [] value.kind = "list" -> <<"[">> \o StrElems(value.elems) \o <<"]">>
      [] value.kind = "dict" -> <<"{">> \o StrItems(value, value.keys) \o <<"}">>

\* f"{value}": a str is formatted without quotes
Fmt(value) == IF value.kind = "str" THEN value.v ELSE str(value)

RECURSIVE Hashes(_)
\* "#" * level
Hashes(level) == IF level <= 0 THEN <<>> ELSE <<"#">> \o Hashes(level - 1)

RECURSIVE dict_to_markdown(_, _)
RECURSIVE MarkdownLines(_, _, _)
RECURSIVE MarkdownItems(_, _)

\* the lines for the items of a list value
MarkdownItems(elems, level) ==
    IF elems = <<>> THEN <<>>
    ELSE <<IF IsDict(Head(elems)) THEN dict_to_markdown(Head(elems), level + 1)
           ELSE <<"- ">> \o Fmt(Head(elems))>>
         \o MarkdownItems(Tail(elems), level)

\* the loop of _dict_to_markdown over data.items()
MarkdownLines(data, keys, level) ==
    LET lines(key, value) ==
            <<IF level <= 6 THEN Hashes(level) \o <<" ", key>>
              ELSE <<"**", key, "**">>>>
            \o (IF IsDict(value) THEN <<dict_to_markdown(value, level + 1)>>
                ELSE IF value.kind = "list" THEN MarkdownItems(value.elems, level)
                ELSE <<Fmt(value) \o <<"\n">>>>)
    IN  IF keys = <<>> THEN <<>>
        ELSE lines(Head(keys), data.items[Head(keys)])
             \o MarkdownLines(data, Tail(keys), level)

\* _dict_to_markdown(data, level)
dict_to_markdown(data, level) ==
    join(<<"\n">>, MarkdownLines(data, data.keys, level)) \o <<"\n">>

\* format_structured_output(data, output_format="markdown")
format_structured_output(data, output_format) ==
    IF IsDict(data) THEN dict_to_markdown(data, 1) ELSE str(data)

---------------------------------------------------------------------------
(* src/utils/file_handlers.py, src/utils/validators.py *)
(* A path is the record of what the file system says about it.             *)

\* mimetypes.guess_type on the suffix
guess_type(path) ==
    CASE path.suffix = ".ogg" -> "audio/ogg"
      [] path.suffix = ".gif" -> "image/gif"
      [] path.suffix = ".txt" -> "text/plain"
      [] OTHER -> None

\* detect_file_type, for a path that exists
detect_file_type(path) ==
    IF path.suffix \in SUPPORTED_AUDIO_FORMATS THEN "audio"
    ELSE IF path.suffix \in SUPPORTED_IMAGE_FORMATS THEN "image"
    ELSE IF guess_type(path) \in {"audio/ogg"} THEN "audio"
    ELSE IF guess_type(path) \in {"image/gif"} THEN "image"
    ELSE "unknown"

validate_file_exists(c, path) ==
    IF ~path.exists THEN Raise(c, "ValidationError", <<"File does not exist: ", path.name>>)
    ELSE IF ~path.is_file THEN Raise(c, "ValidationError", <<"Path is not a file: ", path.name>>)
    ELSE Ok(c, None)

validate_audio_file(c, path) ==
    IF ~path.exists THEN Raise(c, "FileNotFoundError", <<"Audio file not found: ", path.name>>)
    ELSE IF detect_file_type(path) # "audio"
    THEN Raise(c, "FileFormatError", <<"Unsupported audio format: ", path.suffix>>)
    ELSE Ok(c, None)

validate_image_file(c, path) ==
    IF ~path.exists THEN Raise(c, "FileNotFoundError", <<"Image file not found: ", path.name>>)
    ELSE IF detect_file_type(path) # "image"
    THEN Raise(c, "FileFormatError", <<"Unsupported image format: ", path.suffix>>)
    ELSE Ok(c, None)

\* the size check that ends validate_audio_input and validate_image_input
validate_size(c, path, what, max_mb) ==
    IF path.size_mb > max_mb
    THEN Raise(c, "ValidationError", <<what, " file too large: ", path.name>>)
    ELSE Ok(c, None)

validate_audio_input(c, path) ==
    LET format_checked(f) ==
            IF f.st = "raise" THEN f
            ELSE validate_size(c, path, "Audio", MAX_AUDIO_FILE_SIZE_MB)
        exists_checked(e) ==
            IF e.st = "raise" THEN e ELSE format_checked(validate_audio_file(c, path))
    IN  exists_checked(validate_file_exists(c, path))

validate_image_input(c, path) ==
    LET format_checked(f) ==
            IF f.st = "raise" THEN f
            ELSE validate_size(c, path, "Image", MAX_IMAGE_FILE_SIZE_MB)
        exists_checked(e) ==
            IF e.st = "raise" THEN e ELSE format_checked(validate_image_file(c, path))
    IN  exists_checked(validate_file_exists(c, path))

---------------------------------------------------------------------------
(* src/audio/transcriber.py *)

\* dict.get(key, default)
Get(d, key, default) == IF key \in DOMAIN d THEN d[key] ELSE default

\* Transcriber.__init__ (mlx_whisper is installed)
Transcriber(model) == [model_name |-> Or(model, DEFAULT_WHISPER_MODEL)]

\* Transcriber._load_model that loads whether or not a model is cached
load_model_AlwaysLoads(self, c) ==
    LET load_answered(r) ==
            IF r.st = "pend" THEN r
            ELSE IF r.st = "raise"
            THEN Raise(r.c, "ModelError",
                       <<"Failed to load Whisper model '", self.model_name, "': ">>
                       \o r.exc.msg)
            ELSE Ok([r.c EXCEPT !.loaded = TRUE], None)
    IN  load_answered(Backend(c, "mlx_whisper.load_model", self.model_name, <<>>))

\* Transcriber._load_model: loads only when no model is cached
load_model(self, c) ==
    LET load_answered(r) ==
            IF r.st = "pend" THEN r
            ELSE IF r.st = "raise"
            THEN Raise(r.c, "ModelError",
                       <<"Failed to load Whisper model '", self.model_name, "': ">>
                       \o r.exc.msg)
            ELSE Ok([r.c EXCEPT !.loaded = TRUE], None)
    IN  IF c.loaded THEN Ok(c, None)
        ELSE load_answered(Backend(c, "mlx_whisper.load_model", self.model_name, <<>>))

\* the loop of Transcriber.transcribe over result.get("segments", [])
ParseSegments(raw) ==
    [i \in 1..Len(raw) |->
        [start |-> Get(raw[i], "start", 0),
         end |-> Get(raw[i], "end", 0),
         text |-> strip(Get(raw[i], "text", <<>>))]]

\* TranscriptionResult(segments, full_text, language)
TranscriptionResult(segments, language) ==
    [segments |-> segments,
     full_text |-> join(<<" ">>, [i \in 1..Len(segments) |-> segments[i].text]),
     language |-> language]

\* Transcriber.transcribe that loads the model before it validates the input
transcribe_LoadsFirst(self, c, audio_path) ==
    LET transcribed(r) ==
            IF r.st = "pend" THEN r
            ELSE IF r.st = "raise"
            THEN Raise(r.c, "TranscriptionError",
                       <<"Failed to transcribe audio: ">> \o r.exc.msg)
            ELSE Ok(r.c, TranscriptionResult(
                             ParseSegments(Get(r.val, "segments", <<>>)),
                             Get(r.val, "language", None)))
        validated(v, c1) ==
            IF v.st = "raise" THEN v
            ELSE transcribed(Backend(c1, "mlx_whisper.transcribe", self.model_name,
                                     audio_path.name))
        model_loaded(l) ==
            IF l.st # "ok" THEN l
            ELSE validated(validate_audio_input(l.c, audio_path), l.c)
    IN  model_loaded(load_model(self, c))

\* Transcriber.transcribe(audio_path) -> TranscriptionResult
transcribe(self, c, audio_path) ==
    LET transcribed(r) ==
            IF r.st = "pend" THEN r
            ELSE IF r.st = "raise"
            THEN Raise(r.c, "TranscriptionError",
                       <<"Failed to transcribe audio: ">> \o r.exc.msg)
            ELSE Ok(r.c, TranscriptionResult(
                             ParseSegments(Get(r.val, "segments", <<>>)),
                             Get(r.val, "language", None)))
        model_loaded(l) ==
            IF l.st # "ok" THEN l
            ELSE transcribed(Backend(l.c, "mlx_whisper.transcribe", self.model_name,
                                     audio_path.name))
        validated(v) ==
            IF v.st = "raise" THEN v ELSE model_loaded(load_model(self, c))
    IN  validated(validate_audio_input(c, audio_path))

---------------------------------------------------------------------------
(* src/audio/chunker.py *)

\* int(max_tokens / 1.3)
words_per_chunk(max_tokens) == (10 * max_tokens) \div 13

RECURSIVE ChunksFrom(_, _, _)
ChunksFrom(words, i, n) ==
    IF i > Len(words) THEN <<>>
    ELSE <<join(<<" ">>, SubSeq(words, i, IF i + n - 1 < Len(words) THEN i + n - 1 ELSE Len(words)))>>
         \o ChunksFrom(words, i + n, n)

\* list(chunk_transcript_by_tokens(transcript, max_tokens)); range() with a
\* zero step raises ValueError
chunk_transcript_by_tokens(c, transcript, max_tokens) ==
    IF words_per_chunk(max_tokens) = 0
    THEN Raise(c, "ValueError", <<"range() arg 3 must not be zero">>)
    ELSE Ok(c, ChunksFrom(split(transcript), 1, words_per_chunk(max_tokens)))

RECURSIVE SegmentGroups_DropsLast(_, _, _, _, _)
\* the loop of chunk_transcript_by_segments without the yield after it
SegmentGroups_DropsLast(segments, i, current_chunk, current_duration, max_duration_seconds) ==
    IF i > Len(segments) THEN <<>>
    ELSE IF /\ current_duration + (segments[i][2] - segments[i][1])
                 > max_duration_seconds
            /\ current_chunk # <<>>
    THEN <<current_chunk>>
         \o SegmentGroups_DropsLast(segments, i + 1, <<segments[i]>>,
                                    segments[i][2] - segments[i][1],
                                    max_duration_seconds)
    ELSE SegmentGroups_DropsLast(segments, i + 1, Append(current_chunk, segments[i]),
                                 current_duration + (segments[i][2] - segments[i][1]),
                                 max_duration_seconds)

RECURSIVE SegmentGroups(_, _, _, _, _)
\* the loop of chunk_transcript_by_segments from segment i on, and the final
\* yield: the groups yielded, in order.  A segment is <<start, end, text>>.
SegmentGroups(segments, i, current_chunk, current_duration, max_duration_seconds) ==
    IF i > Len(segments)
    THEN IF current_chunk # <<>> THEN <<current_chunk>> ELSE <<>>
    ELSE IF /\ current_duration + (segments[i][2] - segments[i][1])
                 > max_duration_seconds
            /\ current_chunk # <<>>
    THEN <<current_chunk>>
         \o SegmentGroups(segments, i + 1, <<segments[i]>>,
                          segments[i][2] - segments[i][1], max_duration_seconds)
    ELSE SegmentGroups(segments, i + 1, Append(current_chunk, segments[i]),
                       current_duration + (segments[i][2] - segments[i][1]),
                       max_duration_seconds)

\* list(chunk_transcript_by_segments(segments, max_duration_seconds))
chunk_transcript_by_segments(segments, max_duration_seconds) ==
    SegmentGroups(segments, 1, <<>>, 0, max_duration_seconds)

---------------------------------------------------------------------------
(* src/audio/summarizer.py *)

\* TranscriptSummarizer.__init__
TranscriptSummarizer(model) == [client |-> OllamaClient(model)]

\* TranscriptSummarizer.summarize
summarize(self, c, transcript, style, format_output) ==
    LET prompt_type == IF style = "concise" THEN "summary" ELSE "detailed_summary"
        generated(r) ==
            IF r.st = "pend" THEN r
            ELSE IF r.st = "raise"
            THEN Raise(r.c, "ModelError",
                       <<"Failed to summarize transcript: ">> \o r.exc.msg)
            ELSE IF format_output = "markdown"
            THEN Ok(r.c, format_markdown_summary(r.val, "Summary"))
            ELSE r
    IN  generated(generate_prompt(self.client, c,
                      format(get_prompt(prompt_type), "{transcript}" :> transcript)))

RECURSIVE SummarizeChunks_SkipsFailed(_, _, _, _, _)
\* the loop over the chunks that leaves out a chunk whose summary failed
SummarizeChunks_SkipsFailed(self, c, rest, style, chunk_summaries) ==
    LET summarized(r) ==
            IF r.st = "pend" THEN r
            ELSE SummarizeChunks_SkipsFailed(self, r.c, Tail(rest), style,
                    IF r.st = "ok" THEN Append(chunk_summaries, r.val)
                    ELSE chunk_summaries)
    IN  IF rest = <<>> THEN Ok(c, chunk_summaries)
        ELSE summarized(summarize(self, c, Head(rest), style, "text"))

RECURSIVE SummarizeChunks(_, _, _, _, _)
\* the loop over the chunks: the result's val is the list chunk_summaries
SummarizeChunks(self, c, rest, style, chunk_summaries) ==
    LET summarized(r) ==
            IF r.st # "ok" THEN r
            ELSE SummarizeChunks(self, r.c, Tail(rest), style,
                                 Append(chunk_summaries, r.val))
    IN  IF rest = <<>> THEN Ok(c, chunk_summaries)
        ELSE summarized(summarize(self, c, Head(rest), style, "text"))

\* TranscriptSummarizer.summarize_long_transcript
summarize_long_transcript(self, c, transcript, style, format_output) ==
    LET all_summarized(s) ==
            IF s.st # "ok" THEN s
            ELSE summarize(self, s.c, join(<<"\n\n">>, s.val), style, format_output)
        chunked(chunks) ==
            IF chunks.st = "raise" THEN chunks
            ELSE IF Len(chunks.val) = 1
            THEN summarize(self, c, transcript, style, format_output)
            ELSE all_summarized(SummarizeChunks(self, c, chunks.val, style, <<>>))
    IN  chunked(chunk_transcript_by_tokens(c, transcript, MAX_TRANSCRIPT_TOKENS))

\* TranscriptSummarizer.extract_action_items
extract_action_items(self, c, transcript) ==
    LET generated(r) ==
            IF r.st = "raise"
            THEN Raise(r.c, "ModelError",
                       <<"Failed to extract action items: ">> \o r.exc.msg)
            ELSE r
    IN  generated(generate_prompt(self.client, c,
                      format(get_prompt("action_items"), "{transcript}" :> transcript)))

---------------------------------------------------------------------------
(* src/audio/audio_pipeline.py *)

\* AudioPipeline.__init__
AudioPipeline(whisper_model, llm_model) ==
    [cls |-> "AudioPipeline",
     transcriber |-> Transcriber(whisper_model),
     summarizer |-> TranscriptSummarizer(llm_model)]

\* AudioPipeline.process without the handler around the summarize step
\* AudioPipeline.process whose step 3 lets the extraction failure through
AudioPipeline_process_ExtractUncaught(self, c, audio_path, do_summarize, summary_style, extract_actions) ==
    LET extracted(a, result) ==
            IF a.st # "ok" THEN a
            ELSE Ok(a.c, SetItem(result, "action_items", a.val))
        step3(c2, result) ==
            IF ~extract_actions THEN Ok(c2, result)
            ELSE extracted(extract_action_items(self.summarizer, c2,
                                                result.transcript_text), result)
        summarized(s, result) ==
            IF s.st = "pend" THEN s
            ELSE IF s.st = "raise"
            THEN step3(s.c, SetItem(result, "summary", <<"Summary generation failed.">>))
            ELSE step3(s.c, SetItem(result, "summary", s.val))
        step2(c1, result) ==
            IF ~do_summarize THEN step3(c1, result)
            ELSE summarized(summarize_long_transcript(self.summarizer, c1,
                                result.transcript_text, summary_style, "markdown"),
                            result)
        transcribed(t) ==
            IF t.st = "pend" THEN t
            ELSE IF t.st = "raise"
            THEN Raise(t.c, "TranscriptionError",
                       <<"Failed to transcribe audio: ">> \o t.exc.msg)
            ELSE step2(t.c, [transcript |-> t.val, transcript_text |-> t.val.full_text])
    IN  transcribed(transcribe(self.transcriber, c, audio_path))

AudioPipeline_process_SummaryUncaught(self, c, audio_path, do_summarize, summary_style, extract_actions) ==
    LET extracted(a, result) ==
            IF a.st = "pend" THEN a
            ELSE IF a.st = "raise"
            THEN Ok(a.c, SetItem(result, "action_items",
                                 <<"Action item extraction failed.">>))
            ELSE Ok(a.c, SetItem(result, "action_items", a.val))
        step3(c2, result) ==
            IF ~extract_actions THEN Ok(c2, result)
            ELSE extracted(extract_action_items(self.summarizer, c2,
                                                result.transcript_text), result)
        summarized(s, result) ==
            IF s.st # "ok" THEN s
            ELSE step3(s.c, SetItem(result, "summary", s.val))
        step2(c1, result) ==
            IF ~do_summarize THEN step3(c1, result)
            ELSE summarized(summarize_long_transcript(self.summarizer, c1,
                                result.transcript_text, summary_style, "markdown"),
                            result)
        transcribed(t) ==
            IF t.st = "pend" THEN t
            ELSE IF t.st = "raise"
            THEN Raise(t.c, "TranscriptionError",
                       <<"Failed to transcribe audio: ">> \o t.exc.msg)
            ELSE step2(t.c, [transcript |-> t.val, transcript_text |-> t.val.full_text])
    IN  transcribed(transcribe(self.transcriber, c, audio_path))

\* AudioPipeline.process without the handler around the transcribe step
AudioPipeline_process_TranscribeUncaught(self, c, audio_path, do_summarize, summary_style, extract_actions) ==
    LET extracted(a, result) ==
            IF a.st = "pend" THEN a
            ELSE IF a.st = "raise"
            THEN Ok(a.c, SetItem(result, "action_items",
                                 <<"Action item extraction failed.">>))
            ELSE Ok(a.c, SetItem(result, "action_items", a.val))
        step3(c2, result) ==
            IF ~extract_actions THEN Ok(c2, result)
            ELSE extracted(extract_action_items(self.summarizer, c2,
                                                result.transcript_text), result)
        summarized(s, result) ==
            IF s.st = "pend" THEN s
            ELSE IF s.st = "raise"
            THEN step3(s.c, SetItem(result, "summary", <<"Summary generation failed.">>))
            ELSE step3(s.c, SetItem(result, "summary", s.val))
        step2(c1, result) ==
            IF ~do_summarize THEN step3(c1, result)
            ELSE summarized(summarize_long_transcript(self.summarizer, c1,
                                result.transcript_text, summary_style, "markdown"),
                            result)
        transcribed(t) ==
            IF t.st # "ok" THEN t
            ELSE step2(t.c, [transcript |-> t.val, transcript_text |-> t.val.full_text])
    IN  transcribed(transcribe(self.transcriber, c, audio_path))

\* AudioPipeline.process
AudioPipeline_process(self, c, audio_path, do_summarize, summary_style, extract_actions) ==
    LET \* step 3: extract action items (if requested), and the return
        extracted(a, result) ==
            IF a.st = "pend" THEN a
            ELSE IF a.st = "raise"
            THEN Ok(a.c, SetItem(result, "action_items",
                                 <<"Action item extraction failed.">>))
            ELSE Ok(a.c, SetItem(result, "action_items", a.val))
        step3(c2, result) ==
            IF ~extract_actions THEN Ok(c2, result)
            ELSE extracted(extract_action_items(self.summarizer, c2,
                                                result.transcript_text), result)
        \* step 2: summarize (if requested)
        summarized(s, result) ==
            IF s.st = "pend" THEN s
            ELSE IF s.st = "raise"
            THEN step3(s.c, SetItem(result, "summary", <<"Summary generation failed.">>))
            ELSE step3(s.c, SetItem(result, "summary", s.val))
        step2(c1, result) ==
            IF ~do_summarize THEN step3(c1, result)
            ELSE summarized(summarize_long_transcript(self.summarizer, c1,
                                result.transcript_text, summary_style, "markdown"),
                            result)
        \* step 1: transcribe
        transcribed(t) ==
            IF t.st = "pend" THEN t
            ELSE IF t.st = "raise"
            THEN Raise(t.c, "TranscriptionError",
                       <<"Failed to transcribe audio: ">> \o t.exc.msg)
            ELSE step2(t.c, [transcript |-> t.val, transcript_text |-> t.val.full_text])
    IN  transcribed(transcribe(self.transcriber, c, audio_path))

\* AudioPipeline.transcribe_only
transcribe_only(self, c, audio_path) == transcribe(self.transcriber, c, audio_path)

---------------------------------------------------------------------------
(* src/vision/analyzer.py, src/vision/descriptor.py *)

\* VisionAnalyzer.__init__
VisionAnalyzer(model) == [model |-> Or(model, DEFAULT_VISION_MODEL)]

\* the body shared by VisionAnalyzer.describe and answer_question: validate,
\* then one generate request with the encoded image
VisionRequest(self, c, image_path, prompt, failure) ==
    LET answered(r) ==
            IF r.st = "pend" THEN r
            ELSE IF r.st = "raise"
            THEN Raise(r.c, "ModelError", <<failure>> \o r.exc.msg)
            ELSE Ok(r.c, IF r.val # <<>> THEN strip(r.val) ELSE <<>>)
        validated(v) ==
            IF v.st = "raise" THEN v
            ELSE answered(Backend(c, "ollama.generate", self.model,
                                  [prompt |-> prompt, images |-> <<image_path.name>>]))
    IN  validated(validate_image_input(c, image_path))

\* VisionAnalyzer.describe(image_path, detail)
describe(self, c, image_path, detail) ==
    VisionRequest(self, c, image_path, <<"Describe this image in detail.">>,
                  "Failed to describe image: ")

\* VisionAnalyzer.answer_question(image_path, question)
answer_question(self, c, image_path, question) ==
    VisionRequest(self, c, image_path, question, "Failed to answer question: ")

\* describe_image_for_llm: a VisionAnalyzer of its own, built with no model name
describe_image_for_llm(c, image_path) ==
    describe(VisionAnalyzer(None), c, image_path, "high")

---------------------------------------------------------------------------
(* src/vision/vision_pipeline.py *)

\* VisionPipeline.__init__
VisionPipeline(vision_model, llm_model) ==
    [cls |-> "VisionPipeline",
     vision_analyzer |-> VisionAnalyzer(vision_model),
     llm_client |-> OllamaClient(llm_model)]

\* the reasoning step that stores the diagram explanation under "reasoning"
Reasoning_DiagramAsReasoning(self, c, result, reasoning_type, question) ==
    LET stored(r, key) ==
            IF r.st # "ok" THEN r ELSE Ok(r.c, SetItem(result, key, r.val))
        Branch(prompt_type, kw, key) ==
            stored(generate_prompt(self.llm_client, c,
                                   format(get_prompt(prompt_type), kw)), key)
    IN  CASE reasoning_type = "description" ->
                Branch("image_description",
                       "{image_description}" :> result.description, "reasoning")
          [] reasoning_type = "diagram" ->
                Branch("diagram_explanation",
                       "{diagram_description}" :> result.description, "reasoning")
          [] reasoning_type = "qa" ->
                IF Not(question)
                THEN Raise(c, "ValueError", <<"Question required for Q&A reasoning type">>)
                ELSE Branch("screen_qa",
                            ("{screenshot_description}" :> result.description)
                            @@ ("{question}" :> question), "answer")
          [] OTHER ->
                Raise(c, "ValueError", <<"Unknown reasoning type: ", reasoning_type>>)

\* the match statement of VisionPipeline.process (the body of its second try)
Reasoning(self, c, result, reasoning_type, question) ==
    LET stored(r, key) ==
            IF r.st # "ok" THEN r ELSE Ok(r.c, SetItem(result, key, r.val))
        Branch(prompt_type, kw, key) ==
            stored(generate_prompt(self.llm_client, c,
                                   format(get_prompt(prompt_type), kw)), key)
    IN  CASE reasoning_type = "description" ->
                Branch("image_description",
                       "{image_description}" :> result.description, "reasoning")
          [] reasoning_type = "diagram" ->
                Branch("diagram_explanation",
                       "{diagram_description}" :> result.description, "explanation")
          [] reasoning_type = "qa" ->
                IF Not(question)
                THEN Raise(c, "ValueError", <<"Question required for Q&A reasoning type">>)
                ELSE Branch("screen_qa",
                            ("{screenshot_description}" :> result.description)
                            @@ ("{question}" :> question), "answer")
          [] OTHER ->
                Raise(c, "ValueError", <<"Unknown reasoning type: ", reasoning_type>>)

\* VisionPipeline.process without the handler around the reasoning step
VisionPipeline_process_ReasoningUncaught(self, c, image_path, reasoning_type, question) ==
    LET step2(c1, result) ==
            Reasoning(self, c1, result, reasoning_type, question)
        described(d) ==
            IF d.st = "pend" THEN d
            ELSE IF d.st = "raise"
            THEN Raise(d.c, "ModelError", <<"Failed to describe image: ">> \o d.exc.msg)
            ELSE step2(d.c, [description |-> d.val])
    IN  described(describe_image_for_llm(c, image_path))

\* VisionPipeline.process(image_path, reasoning_type, question)
VisionPipeline_process(self, c, image_path, reasoning_type, question) ==
    LET \* step 2: reasoning; its failure is recorded in the result
        reasoned(r, result) ==
            IF r.st = "raise"
            THEN Ok(r.c, SetItem(result, "reasoning_error", r.exc.msg))
            ELSE r
        step2(c1, result) ==
            reasoned(Reasoning(self, c1, result, reasoning_type, question), result)
        \* step 1: the image description
        described(d) ==
            IF d.st = "pend" THEN d
            ELSE IF d.st = "raise"
            THEN Raise(d.c, "ModelError", <<"Failed to describe image: ">> \o d.exc.msg)
            ELSE step2(d.c, [description |-> d.val])
    IN  described(describe_image_for_llm(c, image_path))

\* VisionPipeline.describe_only
describe_only(self, c, image_path) ==
    describe(self.vision_analyzer, c, image_path, "medium")

---------------------------------------------------------------------------
(* src/pipelines/screen_qa.py *)

\* ScreenQA.__init__
ScreenQA(vision_model, llm_model) ==
    [cls |-> "ScreenQA",
     vision_pipeline |-> VisionPipeline(vision_model, llm_model),
     llm_client |-> OllamaClient(llm_model)]

\* ScreenQA.answer that also rejects an empty image description
answer_RejectsEmptyDescription(self, c, image_path, question) ==
    LET processed(r) ==
            IF r.st # "ok" THEN r
            ELSE IF Not(Get(r.val, "answer", <<>>)) \/ Not(r.val.description)
            THEN Raise(r.c, "ModelError", <<"Failed to generate answer">>)
            ELSE Ok(r.c, Get(r.val, "answer", <<>>))
    IN  processed(VisionPipeline_process(self.vision_pipeline, c, image_path,
                                         "qa", question))

\* ScreenQA.answer without the check of the answer
answer_Unchecked(self, c, image_path, question) ==
    LET processed(r) ==
            IF r.st # "ok" THEN r
            ELSE Ok(r.c, Get(r.val, "answer", <<>>))
    IN  processed(VisionPipeline_process(self.vision_pipeline, c, image_path,
                                         "qa", question))

\* ScreenQA.answer(image_path, question)
answer(self, c, image_path, question) ==
    LET processed(r) ==
            IF r.st # "ok" THEN r
            ELSE IF Not(Get(r.val, "answer", <<>>))
            THEN Raise(r.c, "ModelError", <<"Failed to generate answer">>)
            ELSE Ok(r.c, Get(r.val, "answer", <<>>))
    IN  processed(VisionPipeline_process(self.vision_pipeline, c, image_path,
                                         "qa", question))

RECURSIVE AnswerEach_Uncaught(_, _, _, _, _)
\* the loop of ScreenQA.interactive_qa without the handler around a question
AnswerEach_Uncaught(self, c, description, rest, answers) ==
    LET answered(r, question) ==
            IF r.st # "ok" THEN r
            ELSE AnswerEach_Uncaught(self, r.c, description, Tail(rest),
                                     SetItem(answers, question, r.val))
        ask(question) ==
            answered(generate_prompt(self.llm_client, c,
                         format(get_prompt("screen_qa"),
                                ("{screenshot_description}" :> description)
                                @@ ("{question}" :> question))),
                     question)
    IN  IF rest = <<>> THEN Ok(c, answers) ELSE ask(Head(rest))

RECURSIVE AnswerEach(_, _, _, _, _)
\* the loop of ScreenQA.interactive_qa over the questions
AnswerEach(self, c, description, rest, answers) ==
    LET answered(r, question) ==
            IF r.st = "pend" THEN r
            ELSE IF r.st = "raise"
            THEN AnswerEach(self, r.c, description, Tail(rest),
                            SetItem(answers, question, <<"Error: ">> \o r.exc.msg))
            ELSE AnswerEach(self, r.c, description, Tail(rest),
                            SetItem(answers, question, r.val))
        ask(question) ==
            answered(generate_prompt(self.llm_client, c,
                         format(get_prompt("screen_qa"),
                                ("{screenshot_description}" :> description)
                                @@ ("{question}" :> question))),
                     question)
    IN  IF rest = <<>> THEN Ok(c, answers) ELSE ask(Head(rest))

\* ScreenQA.interactive_qa(image_path, questions)
interactive_qa(self, c, image_path, questions) ==
    LET described(d) ==
            IF d.st # "ok" THEN d
            ELSE AnswerEach(self, d.c, d.val, questions, <<>>)
    IN  described(describe_only(self.vision_pipeline, c, image_path))

---------------------------------------------------------------------------
(* src/pipelines/diagram_explainer.py *)

\* DiagramExplainer.__init__
DiagramExplainer(vision_model, llm_model) ==
    [cls |-> "DiagramExplainer",
     vision_pipeline |-> VisionPipeline(vision_model, llm_model),
     llm_client |-> OllamaClient(llm_model)]

\* the technical prompt: the user text of the diagram_explanation template and
\* the request for technical detail appended to it
technical_prompt(description) ==
    LET extended(p) ==
            [system |-> p.system,
             user |-> p.user \o <<"\n\n", "Provide a more technical explanation with specific details about the components, relationships, and logic.">>]
    IN  extended(format(get_prompt("diagram_explanation"),
                        "{diagram_description}" :> description))

\* DiagramExplainer.explain that does not fall back to the description
explain_NoFallback(self, c, image_path, detail_level) ==
    LET enhanced(e, explanation) ==
            IF e.st = "raise" THEN Ok(e.c, explanation) ELSE e
        enhance(c1, result, explanation) ==
            enhanced(generate_prompt(self.llm_client, c1,
                                     technical_prompt(result.description)),
                     explanation)
        explained(c1, result, explanation) ==
            IF Not(explanation)
            THEN Raise(c1, "ModelError", <<"Failed to generate diagram explanation">>)
            ELSE IF detail_level = "technical" THEN enhance(c1, result, explanation)
            ELSE Ok(c1, explanation)
        processed(r) ==
            IF r.st # "ok" THEN r
            ELSE explained(r.c, r.val, Get(r.val, "explanation", <<>>))
    IN  processed(VisionPipeline_process(self.vision_pipeline, c, image_path,
                                         "diagram", NoneText))

\* DiagramExplainer.explain without the handler around the enhancement
explain_EnhancementUncaught(self, c, image_path, detail_level) ==
    LET enhance(c1, result) ==
            generate_prompt(self.llm_client, c1, technical_prompt(result.description))
        explained(c1, result, explanation) ==
            IF Not(explanation)
            THEN Raise(c1, "ModelError", <<"Failed to generate diagram explanation">>)
            ELSE IF detail_level = "technical" THEN enhance(c1, result)
            ELSE Ok(c1, explanation)
        processed(r) ==
            IF r.st # "ok" THEN r
            ELSE explained(r.c, r.val,
                           Get(r.val, "explanation", Get(r.val, "description", <<>>)))
    IN  processed(VisionPipeline_process(self.vision_pipeline, c, image_path,
                                         "diagram", NoneText))

\* DiagramExplainer.explain(image_path, detail_level)
explain(self, c, image_path, detail_level) ==
    LET \* enhance the explanation; a failure falls back to the explanation
        enhanced(e, explanation) ==
            IF e.st = "raise" THEN Ok(e.c, explanation) ELSE e
        enhance(c1, result, explanation) ==
            enhanced(generate_prompt(self.llm_client, c1,
                                     technical_prompt(result.description)),
                     explanation)
        explained(c1, result, explanation) ==
            IF Not(explanation)
            THEN Raise(c1, "ModelError", <<"Failed to generate diagram explanation">>)
            ELSE IF detail_level = "technical" THEN enhance(c1, result, explanation)
            ELSE Ok(c1, explanation)
        \* the vision pipeline's description and explanation
        processed(r) ==
            IF r.st # "ok" THEN r
            ELSE explained(r.c, r.val,
                           Get(r.val, "explanation", Get(r.val, "description", <<>>)))
    IN  processed(VisionPipeline_process(self.vision_pipeline, c, image_path,
                                         "diagram", NoneText))

---------------------------------------------------------------------------
(* src/pipelines/meeting_minutes.py *)

\* MeetingMinutesGenerator.__init__
MeetingMinutesGenerator(whisper_model, llm_model) ==
    [cls |-> "MeetingMinutesGenerator",
     audio_pipeline |-> AudioPipeline(whisper_model, llm_model),
     llm_client |-> OllamaClient(llm_model)]

\* the metadata sub-map of MeetingMinutesGenerator.generate
MinutesMetadata(audio_path, transcript_result) ==
    Dict(<<"source_file", "transcript_length", "segments_count">>,
         [source_file |-> StrValue(<<audio_path.name>>),
          transcript_length |-> IntValue(Len(transcript_result.full_text)),
          segments_count |-> IntValue(Len(transcript_result.segments))])

\* MeetingMinutesGenerator.generate that counts the characters of the
\* transcript where it should count its segments
MeetingMinutesGenerator_generate_WrongCount(self, c, audio_path, output_format) ==
    LET formatted(c2, minutes_data) ==
            IF output_format = "markdown"
            THEN Ok(c2, format_structured_output(minutes_data, "markdown"))
            ELSE Ok(c2, minutes_data)
        extracted(j, transcript_result) ==
            IF j.st = "raise"
            THEN Raise(j.c, "ModelError",
                       <<"Failed to generate meeting minutes: ">> \o j.exc.msg)
            ELSE IF IsDict(j.val)
            THEN formatted(j.c, DictSet(j.val, "metadata",
                     DictSet(MinutesMetadata(audio_path, transcript_result),
                             "segments_count",
                             IntValue(Len(transcript_result.full_text)))))
            ELSE formatted(j.c, j.val)
        generated(r, transcript_result) ==
            IF r.st = "pend" THEN r
            ELSE IF r.st = "raise"
            THEN Raise(r.c, "ModelError",
                       <<"Failed to generate meeting minutes: ">> \o r.exc.msg)
            ELSE extracted(extract_json(r.c, r.val), transcript_result)
        transcribed(t) ==
            IF t.st # "ok" THEN t
            ELSE generated(generate_prompt(self.llm_client, t.c,
                               format(get_prompt("meeting_minutes"),
                                      "{transcript}" :> t.val.full_text)),
                           t.val)
    IN  transcribed(transcribe_only(self.audio_pipeline, c, audio_path))

\* MeetingMinutesGenerator.generate(audio_path, output_format)
MeetingMinutesGenerator_generate(self, c, audio_path, output_format) ==
    LET \* format output
        formatted(c2, minutes_data) ==
            IF output_format = "markdown"
            THEN Ok(c2, format_structured_output(minutes_data, "markdown"))
            ELSE Ok(c2, minutes_data)
        \* add metadata
        extracted(j, transcript_result) ==
            IF j.st = "raise"
            THEN Raise(j.c, "ModelError",
                       <<"Failed to generate meeting minutes: ">> \o j.exc.msg)
            ELSE IF IsDict(j.val)
            THEN formatted(j.c, DictSet(j.val, "metadata",
                                        MinutesMetadata(audio_path, transcript_result)))
            ELSE formatted(j.c, j.val)
        \* step 2: generate structured minutes using the LLM
        generated(r, transcript_result) ==
            IF r.st = "pend" THEN r
            ELSE IF r.st = "raise"
            THEN Raise(r.c, "ModelError",
                       <<"Failed to generate meeting minutes: ">> \o r.exc.msg)
            ELSE extracted(extract_json(r.c, r.val), transcript_result)
        \* step 1: transcribe audio
        transcribed(t) ==
            IF t.st # "ok" THEN t
            ELSE generated(generate_prompt(self.llm_client, t.c,
                               format(get_prompt("meeting_minutes"),
                                      "{transcript}" :> t.val.full_text)),
                           t.val)
    IN  transcribed(transcribe_only(self.audio_pipeline, c, audio_path))

---------------------------------------------------------------------------
(* src/pipelines/multimodal.py *)

\* MultimodalPipeline.__init__
MultimodalPipeline(whisper_model, vision_model, llm_model) ==
    [cls |-> "MultimodalPipeline",
     audio_pipeline |-> AudioPipeline(whisper_model, llm_model),
     vision_pipeline |-> VisionPipeline(vision_model, llm_model),
     llm_client |-> OllamaClient(llm_model)]

\* the f-string combined_prompt
combined_prompt(transcript_text, whiteboard_description) ==
    <<"Based on this meeting transcript and whiteboard description, create comprehensive meeting notes.",
      "\n\n", "Meeting Transcript:", "\n">> \o transcript_text
    \o <<"\n\n", "Whiteboard Description:", "\n">> \o whiteboard_description
    \o <<"\n\n", "Create structured meeting notes that combine information from both sources.">>

\* process_whiteboard_meeting without the handler around the combining call
process_whiteboard_meeting_Uncaught(self, c, audio_path, whiteboard_image_path) ==
    LET combined(n, audio_result, whiteboard_description) ==
            IF n.st # "ok" THEN n
            ELSE Ok(n.c, [transcript |-> Get(audio_result, "transcript_text", <<>>),
                          whiteboard_description |-> whiteboard_description,
                          combined_notes |-> n.val,
                          summary |-> Get(audio_result, "summary", <<>>)])
        described(d, audio_result) ==
            IF d.st # "ok" THEN d
            ELSE combined(generate(self.llm_client, d.c,
                              combined_prompt(Get(audio_result, "transcript_text", <<>>),
                                              d.val),
                              <<"You are a helpful assistant that creates comprehensive meeting notes from multiple sources.">>,
                              None),
                          audio_result, d.val)
        audio_processed(a) ==
            IF a.st # "ok" THEN a
            ELSE described(describe_only(self.vision_pipeline, a.c,
                                         whiteboard_image_path), a.val)
    IN  audio_processed(AudioPipeline_process(self.audio_pipeline, c, audio_path,
                                              TRUE, "concise", FALSE))

\* MultimodalPipeline.process_whiteboard_meeting(audio_path, whiteboard_image_path)
process_whiteboard_meeting(self, c, audio_path, whiteboard_image_path) ==
    LET \* combine using the LLM
        combined(n, audio_result, whiteboard_description) ==
            IF n.st = "pend" THEN n
            ELSE IF n.st = "raise"
            THEN Ok(n.c, [transcript |-> Get(audio_result, "transcript_text", <<>>),
                          whiteboard_description |-> whiteboard_description,
                          combined_notes |-> <<"Failed to combine sources.">>,
                          error |-> n.exc.msg])
            ELSE Ok(n.c, [transcript |-> Get(audio_result, "transcript_text", <<>>),
                          whiteboard_description |-> whiteboard_description,
                          combined_notes |-> n.val,
                          summary |-> Get(audio_result, "summary", <<>>)])
        \* process the whiteboard image
        described(d, audio_result) ==
            IF d.st # "ok" THEN d
            ELSE combined(generate(self.llm_client, d.c,
                              combined_prompt(Get(audio_result, "transcript_text", <<>>),
                                              d.val),
                              <<"You are a helpful assistant that creates comprehensive meeting notes from multiple sources.">>,
                              None),
                          audio_result, d.val)
        \* process audio
        audio_processed(a) ==
            IF a.st # "ok" THEN a
            ELSE described(describe_only(self.vision_pipeline, a.c,
                                         whiteboard_image_path), a.val)
    IN  audio_processed(AudioPipeline_process(self.audio_pipeline, c, audio_path,
                                              TRUE, "concise", FALSE))

---------------------------------------------------------------------------
(* src/vision/ocr.py *)

\* self.llm_client = None
NoClient == [model |-> None]

\* OCRExtractor.__init__: a text client only for a truthy llm_model
OCRExtractor(vision_model, llm_model) ==
    [vision_analyzer |-> VisionAnalyzer(vision_model),
     llm_client |-> IF llm_model \notin {None, ""} THEN OllamaClient(llm_model)
                    ELSE NoClient]

\* OCRExtractor.extract_text without the handler around the cleanup
extract_text_CleanupUncaught(self, c, image_path, cleanup) ==
    LET failed(r) ==
            IF r.st = "raise"
            THEN Raise(r.c, "ModelError",
                       <<"Failed to extract text from image: ">> \o r.exc.msg)
            ELSE r
        extracted(e) ==
            IF e.st # "ok" THEN e
            ELSE IF cleanup /\ self.llm_client # NoClient
            THEN generate_prompt(self.llm_client, e.c,
                     format(get_prompt("ocr_cleanup"), "{ocr_text}" :> e.val))
            ELSE e
    IN  failed(extracted(answer_question(self.vision_analyzer, c, image_path,
            <<"Extract all text visible in this image. Include all words, numbers, and labels exactly as they appear.">>)))

\* OCRExtractor.extract_text(image_path, cleanup)
extract_text(self, c, image_path, cleanup) ==
    LET failed(r) ==
            IF r.st = "raise"
            THEN Raise(r.c, "ModelError",
                       <<"Failed to extract text from image: ">> \o r.exc.msg)
            ELSE r
        \* a failing cleanup falls back to the raw extraction
        cleaned(r, extracted_text) ==
            IF r.st = "raise" THEN Ok(r.c, extracted_text) ELSE r
        extracted(e) ==
            IF e.st # "ok" THEN e
            ELSE IF cleanup /\ self.llm_client # NoClient
            THEN cleaned(generate_prompt(self.llm_client, e.c,
                             format(get_prompt("ocr_cleanup"), "{ocr_text}" :> e.val)),
                         e.val)
            ELSE e
    IN  failed(extracted(answer_question(self.vision_analyzer, c, image_path,
            <<"Extract all text visible in this image. Include all words, numbers, and labels exactly as they appear.">>)))

---------------------------------------------------------------------------
(* src/pipelines/receipt_parser.py *)

\* ReceiptParser.__init__
ReceiptParser(vision_model, llm_model) ==
    [cls |-> "ReceiptParser",
     ocr_extractor |-> OCRExtractor(vision_model, llm_model),
     llm_client |-> OllamaClient(llm_model)]

\* the metadata sub-map of ReceiptParser.parse
ReceiptMetadata(image_path, receipt_text) ==
    Dict(<<"source_file", "raw_text_length">>,
         [source_file |-> StrValue(<<image_path.name>>),
          raw_text_length |-> IntValue(Len(receipt_text))])

\* ReceiptParser.parse that answers a failed extraction with the raw text
parse_ExtractionSwallowed(self, c, image_path, output_format) ==
    LET formatted(c2, receipt_data) ==
            IF output_format = "markdown"
            THEN Ok(c2, format_structured_output(receipt_data, "markdown"))
            ELSE Ok(c2, receipt_data)
        extracted(j, receipt_text) ==
            IF j.st = "raise"
            THEN Ok(j.c, DictSet(Dict(<<>>, <<>>), "raw_text", StrValue(receipt_text)))
            ELSE IF IsDict(j.val)
            THEN formatted(j.c, DictSet(j.val, "metadata",
                                        ReceiptMetadata(image_path, receipt_text)))
            ELSE formatted(j.c, j.val)
        generated(r, receipt_text) ==
            IF r.st = "pend" THEN r
            ELSE IF r.st = "raise"
            THEN Raise(r.c, "ModelError", <<"Failed to parse receipt: ">> \o r.exc.msg)
            ELSE extracted(extract_json(r.c, r.val), receipt_text)
        ocr_done(t) ==
            IF t.st = "pend" THEN t
            ELSE IF t.st = "raise"
            THEN Raise(t.c, "ModelError",
                       <<"Failed to extract receipt text: ">> \o t.exc.msg)
            ELSE generated(generate_prompt(self.llm_client, t.c,
                               format(get_prompt("receipt_extraction"),
                                      "{receipt_text}" :> t.val)),
                           t.val)
    IN  ocr_done(extract_text(self.ocr_extractor, c, image_path, TRUE))

\* ReceiptParser.parse(image_path, output_format)
parse(self, c, image_path, output_format) ==
    LET \* format output
        formatted(c2, receipt_data) ==
            IF output_format = "markdown"
            THEN Ok(c2, format_structured_output(receipt_data, "markdown"))
            ELSE Ok(c2, receipt_data)
        \* add metadata
        extracted(j, receipt_text) ==
            IF j.st = "raise"
            THEN Raise(j.c, "ModelError", <<"Failed to parse receipt: ">> \o j.exc.msg)
            ELSE IF IsDict(j.val)
            THEN formatted(j.c, DictSet(j.val, "metadata",
                                        ReceiptMetadata(image_path, receipt_text)))
            ELSE formatted(j.c, j.val)
        \* step 2: extract structured data using the LLM
        generated(r, receipt_text) ==
            IF r.st = "pend" THEN r
            ELSE IF r.st = "raise"
            THEN Raise(r.c, "ModelError", <<"Failed to parse receipt: ">> \o r.exc.msg)
            ELSE extracted(extract_json(r.c, r.val), receipt_text)
        \* step 1: extract text using OCR
        ocr_done(t) ==
            IF t.st = "pend" THEN t
            ELSE IF t.st = "raise"
            THEN Raise(t.c, "ModelError",
                       <<"Failed to extract receipt text: ">> \o t.exc.msg)
            ELSE generated(generate_prompt(self.llm_client, t.c,
                               format(get_prompt("receipt_extraction"),
                                      "{receipt_text}" :> t.val)),
                           t.val)
    IN  ocr_done(extract_text(self.ocr_extractor, c, image_path, TRUE))

---------------------------------------------------------------------------
(* cli/main.py *)

\* the response of a call that a KeyboardInterrupt cut short
InterruptResp == [ok |-> FALSE, val |-> <<"KeyboardInterrupt">>]

\* a call out of main: the command handler or write_output, which returns,
\* raises an Exception, or is cut short by a KeyboardInterrupt
Called(r) ==
    IF r.st = "raise" /\ r.exc.msg = InterruptResp.val
    THEN Raise(r.c, "KeyboardInterrupt", <<>>)
    ELSE r

\* the content main writes for a result: the string itself, json.dumps of a
\* dict, str of anything else
Rendered(result) ==
    [of |-> result,
     by |-> IF result.kind = "str" THEN "identity"
            ELSE IF IsDict(result) THEN "json.dumps" ELSE "str"]

\* main() without its except KeyboardInterrupt clause
main_InterruptUncaught(c, args) ==
    LET caught(r) ==
            IF r.exc.type = "KeyboardInterrupt" THEN r ELSE Ok(r.c, 1)
        written(w) ==
            IF w.st = "pend" THEN w
            ELSE IF w.st = "raise" THEN caught(w)
            ELSE Ok(w.c, 0)
        handled(r) ==
            IF r.st = "pend" THEN r
            ELSE IF r.st = "raise" THEN caught(r)
            ELSE written(Called(Backend(r.c, "write_output", None,
                                        [content |-> Rendered(r.val),
                                         output_path |-> args.output])))
    IN  IF args.domain = "audio"
        THEN handled(Called(Backend(c, "audio_cli.handle_audio_command", None, args)))
        ELSE IF args.domain = "vision"
        THEN handled(Called(Backend(c, "vision_cli.handle_vision_command", None, args)))
        ELSE Ok(c, 1)

\* main() after parse_args: the exit code it returns
main(c, args) ==
    LET caught(r) ==
            IF r.exc.type = "KeyboardInterrupt" THEN Ok(r.c, 130) ELSE Ok(r.c, 1)
        written(w) ==
            IF w.st = "pend" THEN w
            ELSE IF w.st = "raise" THEN caught(w)
            ELSE Ok(w.c, 0)
        handled(r) ==
            IF r.st = "pend" THEN r
            ELSE IF r.st = "raise" THEN caught(r)
            ELSE written(Called(Backend(r.c, "write_output", None,
                                        [content |-> Rendered(r.val),
                                         output_path |-> args.output])))
    IN  IF args.domain = "audio"
        THEN handled(Called(Backend(c, "audio_cli.handle_audio_command", None, args)))
        ELSE IF args.domain = "vision"
        THEN handled(Called(Backend(c, "vision_cli.handle_vision_command", None, args)))
        ELSE Ok(c, 1)

---------------------------------------------------------------------------
(* The environment: files, constructor arguments, backend responses *)

File(name, suffix, size_mb) ==
    [name |-> name, exists |-> TRUE, is_file |-> TRUE, suffix |-> suffix,
     size_mb |-> size_mb]

AudioPaths ==
    {File("a.wav", ".wav", 1), File("big.wav", ".wav", 501),
     File("a.txt", ".txt", 1),
     [File("dir.wav", ".wav", 0) EXCEPT !.is_file = FALSE],
     [File("missing.wav", ".wav", 0) EXCEPT !.exists = FALSE, !.is_file = FALSE]}

ImagePaths ==
    {File("i.png", ".png", 1), File("big.png", ".png", 11),
     File("i.txt", ".txt", 1),
     [File("missing.png", ".png", 0) EXCEPT !.exists = FALSE, !.is_file = FALSE]}

\* the optional model names given to a constructor
Models == {None, "custom"}

SeqsUpTo(S, n) == UNION {[1..k -> S] : k \in 0..n}

\* segments as mlx_whisper reports them; keys may be missing
RawSegs ==
    {[start |-> 0, end |-> 2, text |-> <<" ", "a", " ", "b", " ", "c">>],
     [text |-> <<"d", " ">>]}

\* what mlx_whisper.transcribe returns
TranscribeResults ==
    {[language |-> "en"]}
    \cup {[segments |-> s, language |-> "en"] : s \in SeqsUpTo(RawSegs, MaxSegments)}

\* a segment reported with its start and no end
OpenSegs == {[start |-> 2, text |-> <<"e">>]}

\* what mlx_whisper.transcribe returns for a recording; the recording a.mp3 is
\* one whose segments can come without an end
TranscribeResultsFor(name) ==
    IF name = "a.mp3"
    THEN TranscribeResults
         \cup {[segments |-> s, language |-> "en"] :
                  s \in SeqsUpTo(RawSegs \cup OpenSegs, MaxSegments)}
    ELSE TranscribeResults

\* the model names ollama's list reports
ListResults == {{}, {DEFAULT_LLM_MODEL, "custom"}}

PlainTexts == {<<>>, <<"text">>}

\* model answers to a prompt that asks for JSON
JsonTexts ==
    {<<>>, <<"text">>, <<"1">>,
     <<"{", "\"title\":", "1", "}">>,
     <<"[", "1", ",", " ", "2", "]">>,
     <<"Here:", " ", "<fence>", "json", "\n", "{", "\"title\":", "1", ",", "\"attendees\":", "[", "]", "}", "\n", "<fence>">>,
     <<"{", "\"title\":", "{", "}", "}">>}

\* the system prompts of the templates that ask for JSON
JsonSystems == {PROMPTS.meeting_minutes.system, PROMPTS.receipt_extraction.system}

\* the message content ollama's chat returns
ChatResults(req) ==
    IF req.arg[1].content \in JsonSystems THEN JsonTexts ELSE PlainTexts

\* the response text of ollama's generate on an image
VisionResults == {<<>>, <<" ">>, <<" ", "desc">>}

\* what a pull from a streamed response may deliver: a chunk with content,
\* a chunk with empty content, a chunk that lacks the message attribute, or
\* the end of the stream
Chunks ==
    {Chunk({"message", "content"}, <<"text">>), Chunk({"message", "content"}, <<>>),
     Chunk({}, <<"text">>)}
StreamResults(req) == IF req.arg >= MaxChunks THEN {EndOfStream} ELSE Chunks \cup {EndOfStream}

\* what a command handler returns: a text or a mapping
HandlerResults ==
    {StrValue(<<>>), StrValue(<<"text">>), Dict(<<"title">>, "title" :> IntValue(1))}

\* the values a backend may return to a request
Results(req) ==
    CASE req.api = "mlx_whisper.load_model" -> {"model"}
      [] req.api = "mlx_whisper.transcribe" -> TranscribeResultsFor(req.arg)
      [] req.api = "ollama.list" -> ListResults
      [] req.api = "ollama.chat" -> ChatResults(req)
      [] req.api = "ollama.generate" -> VisionResults
      [] req.api = "ollama.chat(stream=True)" -> {"stream"}
      [] req.api = "stream.next" -> StreamResults(req)
      [] req.api \in {"audio_cli.handle_audio_command",
                      "vision_cli.handle_vision_command"} -> HandlerResults
      [] req.api = "write_output" -> {None}

---------------------------------------------------------------------------
(* Calls *)

NoCall == [op |-> "none", args |-> <<>>, loaded |-> FALSE]
Idle == [st |-> "idle", exc |-> NoExc, val |-> <<>>]

\* the method of the call, run on the responses rs
Run(self, cl, rs) ==
    LET c0 == [resp |-> rs, log |-> <<>>, loaded |-> cl.loaded]
        a == cl.args
    IN  CASE cl.op = "AudioPipeline.process" ->
                AudioPipeline_process(self, c0, a.audio_path, a.summarize,
                                      a.summary_style, a.extract_actions)
          [] cl.op = "VisionPipeline.process" ->
                VisionPipeline_process(self, c0, a.image_path, a.reasoning_type,
                                       a.question)
          [] cl.op = "ScreenQA.answer" ->
                answer(self, c0, a.image_path, a.question)
          [] cl.op = "ScreenQA.interactive_qa" ->
                interactive_qa(self, c0, a.image_path, a.questions)
          [] cl.op = "MeetingMinutesGenerator.generate" ->
                MeetingMinutesGenerator_generate(self, c0, a.audio_path, a.output_format)
          [] cl.op = "MultimodalPipeline.process_whiteboard_meeting" ->
                process_whiteboard_meeting(self, c0, a.audio_path, a.image_path)
          [] cl.op = "ReceiptParser.parse" ->
                parse(self, c0, a.image_path, a.output_format)
          [] cl.op = "Transcriber.transcribe" ->
                transcribe(self, c0, a.audio_path)
          [] cl.op = "OllamaClient.generate" ->
                generate(self, c0, a.prompt, a.system, a.model)
          [] cl.op = "OllamaClient.generate(stream=True)" ->
                generate_streaming(self, c0, a.prompt, a.system, a.model)
          [] cl.op = "main" -> main(c0, a)
          [] cl.op = "chunk_transcript_by_segments" ->
                Ok(c0, chunk_transcript_by_segments(a.segments, a.max_duration_seconds))
          [] cl.op = "chunk_transcript_by_tokens" ->
                chunk_transcript_by_tokens(c0, a.transcript, a.max_tokens)
          [] cl.op = "extract_json" -> extract_json(c0, a.text)
          [] cl.op = "TranscriptSummarizer.summarize_long_transcript" ->
                summarize_long_transcript(self, c0, a.transcript, a.style, a.format_output)
          [] cl.op = "OCRExtractor.extract_text" ->
                extract_text(self, c0, a.image_path, a.cleanup)
          [] cl.op = "DiagramExplainer.explain" ->
                explain(self, c0, a.image_path, a.detail_level)

\* the state after the call cl has run on the responses rs with outcome r
Stepped(r, cl, rs) ==
    /\ call' = cl
    /\ resp' = rs
    /\ log' = r.c.log
    /\ loaded' = r.c.loaded
    /\ out' = [st |-> r.st, exc |-> r.exc, val |-> r.val]
    /\ UNCHANGED obj

Step(cl, rs) == Stepped(Run(obj, cl, rs), cl, rs)

\* a caller invokes a method; calls do not overlap (single-threaded)
Invoke(op, args) ==
    /\ out.st # "pend"
    /\ Step([op |-> op, args |-> args, loaded |-> loaded], <<>>)

\* the backend answers the request the call is blocked in
BackendReturns ==
    /\ out.st = "pend"
    /\ \E v \in Results(log[Len(log)]) : Step(call, Append(resp, OkResp(v)))

\* the request the call is blocked in fails (network, backend error)
BackendFails ==
    /\ out.st = "pend"
    /\ Step(call, Append(resp, FailResp))

InitWith(objects) ==
    /\ obj \in objects
    /\ loaded = FALSE
    /\ call = NoCall
    /\ resp = <<>>
    /\ log = <<>>
    /\ out = Idle

---------------------------------------------------------------------------
(* AudioPipeline *)

CallAudioProcess ==
    /\ obj.cls = "AudioPipeline"
    /\ \E args \in
             {[audio_path |-> p, summarize |-> s, summary_style |-> style, extract_actions |-> e] :
                 p \in AudioPaths, s \in BOOLEAN, style \in {"concise", "detailed"}, e \in BOOLEAN} :
          Invoke("AudioPipeline.process", args)

InitAudio == InitWith({AudioPipeline(w, l) : w \in Models, l \in Models})
NextAudio == CallAudioProcess \/ BackendReturns \/ BackendFails
SpecAudio == InitAudio /\ [][NextAudio]_vars

---------------------------------------------------------------------------
(* VisionPipeline *)

Questions == {<<"q1">>, <<"q2">>}

CallVisionProcess ==
    /\ obj.cls = "VisionPipeline"
    /\ \E args \in
             {[image_path |-> p, reasoning_type |-> t, question |-> q] :
                 p \in ImagePaths, t \in {"description", "diagram", "qa", "other"}, q \in {NoneText, <<>>} \cup Questions} :
          Invoke("VisionPipeline.process", args)

InitVision == InitWith({VisionPipeline(v, l) : v \in Models, l \in Models})
NextVision == CallVisionProcess \/ BackendReturns \/ BackendFails
SpecVision == InitVision /\ [][NextVision]_vars

---------------------------------------------------------------------------
(* ScreenQA *)

CallAnswer ==
    /\ obj.cls = "ScreenQA"
    /\ \E args \in
             {[image_path |-> p, question |-> q] :
                 p \in ImagePaths, q \in {<<>>} \cup Questions} :
          Invoke("ScreenQA.answer", args)

CallInteractiveQA ==
    /\ obj.cls = "ScreenQA"
    /\ \E args \in
             {[image_path |-> p, questions |-> qs] :
                 p \in ImagePaths, qs \in SeqsUpTo(Questions, MaxQuestions)} :
          Invoke("ScreenQA.interactive_qa", args)

InitScreenQA == InitWith({ScreenQA(v, l) : v \in Models, l \in Models})
NextScreenQA == CallAnswer \/ CallInteractiveQA \/ BackendReturns \/ BackendFails
SpecScreenQA == InitScreenQA /\ [][NextScreenQA]_vars

---------------------------------------------------------------------------
(* MeetingMinutesGenerator *)

CallGenerate ==
    /\ obj.cls = "MeetingMinutesGenerator"
    /\ \E args \in
             {[audio_path |-> p, output_format |-> f] :
                 p \in AudioPaths, f \in {"json", "markdown"}} :
          Invoke("MeetingMinutesGenerator.generate", args)

InitMinutes == InitWith({MeetingMinutesGenerator(w, l) : w \in Models, l \in Models})
NextMinutes == CallGenerate \/ BackendReturns \/ BackendFails
SpecMinutes == InitMinutes /\ [][NextMinutes]_vars

---------------------------------------------------------------------------
(* MultimodalPipeline *)

CallWhiteboardMeeting ==
    /\ obj.cls = "MultimodalPipeline"
    /\ \E args \in
             {[audio_path |-> p, image_path |-> i] :
                 p \in AudioPaths, i \in ImagePaths} :
          Invoke("MultimodalPipeline.process_whiteboard_meeting", args)

InitMultimodal ==
    InitWith({MultimodalPipeline(w, v, l) : w \in Models, v \in Models, l \in Models})
NextMultimodal == CallWhiteboardMeeting \/ BackendReturns \/ BackendFails
SpecMultimodal == InitMultimodal /\ [][NextMultimodal]_vars

---------------------------------------------------------------------------
(* ReceiptParser *)

CallParse ==
    /\ obj.cls = "ReceiptParser"
    /\ \E args \in
             {[image_path |-> p, output_format |-> f] :
                 p \in ImagePaths, f \in {"json", "markdown"}} :
          Invoke("ReceiptParser.parse", args)

InitReceipt == InitWith({ReceiptParser(v, l) : v \in Models, l \in Models})
NextReceipt == CallParse \/ BackendReturns \/ BackendFails
SpecReceipt == InitReceipt /\ [][NextReceipt]_vars

---------------------------------------------------------------------------
(* The two structured-extraction pipelines together *)

InitStructured ==
    InitWith({MeetingMinutesGenerator(w, l) : w \in Models, l \in Models}
             \cup {ReceiptParser(v, l) : v \in Models, l \in Models})
NextStructured == CallGenerate \/ CallParse \/ BackendReturns \/ BackendFails
SpecStructured == InitStructured /\ [][NextStructured]_vars

---------------------------------------------------------------------------
(* DiagramExplainer *)

CallExplain ==
    /\ obj.cls = "DiagramExplainer"
    /\ \E args \in
             {[image_path |-> p, detail_level |-> d] :
                 p \in ImagePaths, d \in {"basic", "detailed", "technical"}} :
          Invoke("DiagramExplainer.explain", args)

InitDiagram == InitWith({DiagramExplainer(v, l) : v \in Models, l \in Models})
NextDiagram == CallExplain \/ BackendReturns \/ BackendFails
SpecDiagram == InitDiagram /\ [][NextDiagram]_vars

---------------------------------------------------------------------------
(* OCRExtractor *)

CallExtractText ==
    \E args \in
          {[image_path |-> p, cleanup |-> cleanup] :
              p \in ImagePaths, cleanup \in BOOLEAN} :
       Invoke("OCRExtractor.extract_text", args)

InitOCR == InitWith({OCRExtractor(v, l) : v \in Models, l \in Models})
NextOCR == CallExtractText \/ BackendReturns \/ BackendFails
SpecOCR == InitOCR /\ [][NextOCR]_vars

---------------------------------------------------------------------------
(* Transcriber *)

\* the audio paths, with files whose suffix is not a listed format and whose
\* MIME type is audio or image
TranscriberPaths ==
    AudioPaths \cup {File("a.ogg", ".ogg", 1), File("big.ogg", ".ogg", 501),
                     File("a.mp3", ".mp3", 1), File("i.gif", ".gif", 1)}

CallTranscribe ==
    \E args \in
          {[audio_path |-> p] :
              p \in TranscriberPaths} :
       Invoke("Transcriber.transcribe", args)

InitTranscriber == InitWith({Transcriber(m) : m \in Models})
NextTranscriber == CallTranscribe \/ BackendReturns \/ BackendFails
SpecTranscriber == InitTranscriber /\ [][NextTranscriber]_vars

---------------------------------------------------------------------------
(* OllamaClient *)

\* the model argument of generate: absent, installed, or not installed
GenerateModels == Models \cup {"absent"}

CallClientGenerate ==
    \E args \in
          {[prompt |-> prompt, system |-> system, model |-> model] :
              prompt \in PlainTexts, system \in {<<>>, <<"system">>}, model \in GenerateModels} :
       Invoke("OllamaClient.generate", args)

InitClient == InitWith({OllamaClient(m) : m \in Models})
NextClient == CallClientGenerate \/ BackendReturns \/ BackendFails
SpecClient == InitClient /\ [][NextClient]_vars

---------------------------------------------------------------------------
(* OllamaClient, streaming *)

CallGenerateStreaming ==
    \E args \in
          {[prompt |-> prompt, system |-> <<>>, model |-> model] :
              prompt \in PlainTexts, model \in Models} :
       Invoke("OllamaClient.generate(stream=True)", args)

NextStreaming == CallGenerateStreaming \/ BackendReturns \/ BackendFails
SpecStreaming == InitClient /\ [][NextStreaming]_vars

---------------------------------------------------------------------------
(* The audio, vision and OCR pipelines together *)

\* a pipeline object carries its class; an OCRExtractor is the one without
CallPipeline == "cls" \in DOMAIN obj /\ (CallAudioProcess \/ CallVisionProcess)
CallExtractor == "cls" \notin DOMAIN obj /\ CallExtractText

InitPipelines == InitAudio \/ InitVision \/ InitOCR
NextPipelines == CallPipeline \/ CallExtractor \/ BackendReturns \/ BackendFails
SpecPipelines == InitPipelines /\ [][NextPipelines]_vars

---------------------------------------------------------------------------
(* CLI *)

\* the parsed arguments: both subcommands are required, so the domain is one
\* of the two
CallMain ==
    \E args \in
          {[domain |-> domain, output |-> output, verbose |-> verbose] :
              domain \in {"audio", "vision"}, output \in {None, "out.md"}, verbose \in BOOLEAN} :
       Invoke("main", args)

\* Ctrl-C while the handler runs or the output is written
Interrupt ==
    /\ out.st = "pend"
    /\ Step(call, Append(resp, InterruptResp))

InitMain == InitWith({[cls |-> "cli"]})
NextMain == CallMain \/ BackendReturns \/ BackendFails \/ Interrupt
SpecMain == InitMain /\ [][NextMain]_vars

---------------------------------------------------------------------------
(* chunk_transcript_by_segments *)

\* (start, end, text) tuples with start <= end
TimedSegments == {<<s, e, "w">> : s \in 0..MaxTime, e \in 0..MaxTime}

\* the arguments of one application of the function
ChunkerInputs ==
    {[segments |-> segs, max_duration_seconds |-> m] :
        segs \in SeqsUpTo({t \in TimedSegments : t[1] <= t[2]}, MaxChunkSegments),
        m \in 0..(MaxTime + 1)}

InitChunker ==
    /\ obj = [cls |-> "chunker"]
    /\ loaded = FALSE
    /\ call \in {[op |-> "chunk_transcript_by_segments", args |-> a, loaded |-> FALSE] :
                    a \in ChunkerInputs}
    /\ resp = <<>>
    /\ log = <<>>
    /\ out = Idle

\* the function applied to the drawn arguments
ApplyChunker == out.st = "idle" /\ Step(call, <<>>)

NextChunker == ApplyChunker
SpecChunker == InitChunker /\ [][NextChunker]_vars

---------------------------------------------------------------------------
(* chunk_transcript_by_tokens *)

\* transcripts of letters and whitespace, and a max_tokens of at least 1
TokenChunkerInputs ==
    {[transcript |-> t, max_tokens |-> m] :
        t \in SeqsUpTo({"a", "b", " ", "\n"}, MaxTranscriptLen), m \in 1..MaxTokens}

InitTokenChunker ==
    /\ obj = [cls |-> "chunker"]
    /\ loaded = FALSE
    /\ call \in {[op |-> "chunk_transcript_by_tokens", args |-> a, loaded |-> FALSE] :
                    a \in TokenChunkerInputs}
    /\ resp = <<>>
    /\ log = <<>>
    /\ out = Idle

NextTokenChunker == ApplyChunker
SpecTokenChunker == InitTokenChunker /\ [][NextTokenChunker]_vars

---------------------------------------------------------------------------
(* extract_json *)

\* valid JSON objects and arrays, flat and nested
JsonBodies ==
    {<<"{", "}">>, <<"[", "]">>, <<"{", "\"title\":", "1", "}">>, <<"[", "1", "]">>,
     <<"[", "1", ",", " ", "2", "]">>,
     <<"{", "\"title\":", "1", ",", "\"attendees\":", "[", "]", "}">>,
     <<"{", "\"title\":", "{", "}", "}">>,
     <<"{", "\"title\":", "[", "1", "]", "}">>,
     <<"{", "\"title\":", "{", "\"title\":", "1", "}", "}">>,
     <<"[", "[", "1", "]", ",", "2", "]">>,
     <<"[", "{", "}", "]">>,
     <<"[", "[", "]", "]">>}

\* the ways a model answer wraps its JSON
Wrappers == {"bare", "prose before", "prose around", "fenced", "fenced in prose"}

Wrap(w, body) ==
    CASE w = "bare" -> body
      [] w = "prose before" -> <<"Here:", " ">> \o body
      [] w = "prose around" -> <<"Here:", " ">> \o body \o <<" ", "text">>
      [] w = "fenced" -> <<"<fence>", "json", "\n">> \o body \o <<"\n", "<fence>">>
      [] w = "fenced in prose" ->
            <<"Here:", " ", "<fence>", "json", "\n">> \o body
            \o <<"\n", "<fence>", " ", "text">>

\* texts that hold no JSON value
NoJsonTexts == {<<>>, <<"text">>, <<"Here:", " ", "text">>, <<"{", "text">>}

ExtractJsonInputs ==
    {[text |-> t] : t \in {Wrap(w, b) : w \in Wrappers, b \in JsonBodies} \cup NoJsonTexts}

InitExtractJson ==
    /\ obj = [cls |-> "formatters"]
    /\ loaded = FALSE
    /\ call \in {[op |-> "extract_json", args |-> a, loaded |-> FALSE] :
                    a \in ExtractJsonInputs}
    /\ resp = <<>>
    /\ log = <<>>
    /\ out = Idle

\* the function applied to the drawn text
ApplyExtractJson == out.st = "idle" /\ Step(call, <<>>)

NextExtractJson == ApplyExtractJson
SpecExtractJson == InitExtractJson /\ [][NextExtractJson]_vars

---------------------------------------------------------------------------
(* TranscriptSummarizer *)

\* transcripts of no word, one word, and up to five words
SummarizerTranscripts ==
    {<<>>, <<" ">>, <<"a">>, <<"a", " ", " ", "b">>, <<"a", " ", "b", " ", "c">>,
     <<"a", " ", "b", " ", "c", " ", "d", " ", "e">>}

CallSummarizeLong ==
    \E args \in
          {[transcript |-> t, style |-> style, format_output |-> f] :
              t \in SummarizerTranscripts, style \in {"concise", "detailed"},
              f \in {"text", "markdown"}} :
       Invoke("TranscriptSummarizer.summarize_long_transcript", args)

InitSummarizer == InitWith({TranscriptSummarizer(m) : m \in Models})
NextSummarizer == CallSummarizeLong \/ BackendReturns \/ BackendFails
SpecSummarizer == InitSummarizer /\ [][NextSummarizer]_vars

---------------------------------------------------------------------------
(* Properties *)
(* Request i of the call is log[i]; once answered, its response is resp[i]. *)

\* request i is a text generation with the system prompt of a catalog template
IsChat(i, prompt_type) ==
    /\ log[i].api = "ollama.chat"
    /\ log[i].arg[1].content = PROMPTS[prompt_type].system

\* the transcription step of the call, on the responses the call has received
TranscribeStep(transcriber) ==
    transcribe(transcriber, [resp |-> resp, log |-> <<>>, loaded |-> call.loaded],
               call.args.audio_path)

\* the summarize step of AudioPipeline.process after a successful transcription
SummarizeStep ==
    LET after(t) ==
            IF t.st # "ok" THEN t
            ELSE summarize_long_transcript(obj.summarizer, t.c, t.val.full_text,
                                           call.args.summary_style, "markdown")
    IN  after(TranscribeStep(obj.transcriber))

\* transcription succeeded and the summarizer then raised
SummarizerFailed ==
    /\ TranscribeStep(obj.transcriber).st = "ok"
    /\ SummarizeStep.st = "raise"

\* C1: in AudioPipeline.process with summarize=true, when transcription
\* succeeds and the summarizer fails, the call does not raise, and its result
\* holds the full transcript text and the summary "Summary generation failed."
C1_SummaryFailureKeepsTranscript ==
    (call.op = "AudioPipeline.process" /\ call.args.summarize /\ SummarizerFailed)
    => /\ out.st # "raise"
       /\ out.st = "ok" =>
            /\ out.val.transcript_text = TranscribeStep(obj.transcriber).val.full_text
            /\ out.val.summary = <<"Summary generation failed.">>

\* a call that returned a non-empty transcript after its summarizer failed
C1_Witness ==
    /\ call.op = "AudioPipeline.process"
    /\ call.args.summarize
    /\ out.st = "ok"
    /\ SummarizerFailed
    /\ out.val.transcript_text # <<>>

\* C2: when the transcription step of AudioPipeline.process fails, the call
\* raises TranscriptionError and has issued no text-generation request
C2_TranscriptionFailureIsFatal ==
    (call.op = "AudioPipeline.process" /\ TranscribeStep(obj.transcriber).st = "raise")
    => /\ out.st = "raise"
       /\ out.exc.type = "TranscriptionError"
       /\ \A i \in 1..Len(log) : log[i].api \notin {"ollama.list", "ollama.chat"}

\* a call whose transcription request failed in the backend
C2_Witness ==
    /\ call.op = "AudioPipeline.process"
    /\ call.args.summarize
    /\ call.args.extract_actions
    /\ Len(resp) >= 1
    /\ log[Len(resp)].api = "mlx_whisper.transcribe"
    /\ ~resp[Len(resp)].ok
    /\ out.st = "raise"

\* C3: VisionPipeline.process with reasoning type "qa" and a missing or empty
\* question raises, and no backend request has been issued
C3_QaWithoutQuestionFailsFirst ==
    (/\ call.op = "VisionPipeline.process"
     /\ call.args.reasoning_type = "qa"
     /\ Not(call.args.question))
    => log = <<>> /\ out.st = "raise"

\* the number of segments the transcription backend reported to the call
SegmentsReported ==
    LET i == CHOOSE k \in 1..Len(resp) : log[k].api = "mlx_whisper.transcribe"
    IN  Len(Get(resp[i].val, "segments", <<>>))

\* data is a dict with a "metadata" key whose segments_count is the number of
\* segments of the transcript
HasSegmentsCount(data) ==
    /\ IsDict(data)
    /\ \E k \in 1..Len(data.keys) : data.keys[k] = "metadata"
    /\ data.items["metadata"].items["segments_count"] = IntValue(SegmentsReported)

\* a generate call with output_format "json" that returned
GenerateReturnedJson ==
    /\ call.op = "MeetingMinutesGenerator.generate"
    /\ call.args.output_format = "json"
    /\ out.st = "ok"

VisionAnsweredEmpty ==
    \E i \in 1..Len(resp) :
        log[i].api = "ollama.generate" /\ resp[i].ok /\ resp[i].val = <<>>

\* the answer of the reasoning request of ScreenQA.answer (the call's third
\* request, after the describe request and the model list), <<>> without one
ReasoningAnswer == IF Len(resp) = 3 /\ resp[3].ok THEN resp[3].val ELSE <<>>

C6_AnswerIsNeverEmpty ==
    call.op = "ScreenQA.answer"
    => /\ out.st = "ok" => out.val # <<>>
       /\ out.st = "raise" => out.exc.type = "ModelError"

\* the reasoning request was answered with an empty text, and answer raised
C6_Witness ==
    /\ call.op = "ScreenQA.answer"
    /\ Len(resp) = 3
    /\ resp[3].ok
    /\ resp[3].val = <<>>
    /\ out.st = "raise"

\* the describe requests of the call
DescribeRequests == {i \in 1..Len(log) : log[i].api = "ollama.generate"}

IsErrorString(t) == t # <<>> /\ Head(t) = "Error: "

\* t is the backend's answer to a text-generation request that asks question
IsAnswerTo(question, t) ==
    \E i \in 1..Len(resp) :
        /\ log[i].api = "ollama.chat"
        /\ resp[i].ok
        /\ resp[i].val = t
        /\ LET content == log[i].arg[2].content
           IN  /\ Len(content) >= Len(question)
               /\ SubSeq(content, Len(content) - Len(question) + 1, Len(content))
                    = question

\* C7: ScreenQA.interactive_qa requests the image description once; once the
\* description is there, no failure aborts the batch; the returned mapping has,
\* for every question, that question's answer or an error string
C7_BatchSurvivesQuestionFailures ==
    call.op = "ScreenQA.interactive_qa"
    => /\ Cardinality(DescribeRequests) <= 1
       /\ out.st = "ok" => Cardinality(DescribeRequests) = 1
       /\ (Len(resp) >= 1 /\ resp[1].ok) => out.st # "raise"
       /\ out.st = "ok" =>
            \A k \in 1..Len(call.args.questions) :
                LET question == call.args.questions[k]
                IN  /\ question \in DOMAIN out.val
                    /\ \/ IsErrorString(out.val[question])
                       \/ IsAnswerTo(question, out.val[question])

\* a returned batch with one question failed and another answered
C7_Witness ==
    /\ call.op = "ScreenQA.interactive_qa"
    /\ out.st = "ok"
    /\ Len(call.args.questions) = MaxQuestions
    /\ \E q1 \in DOMAIN out.val, q2 \in DOMAIN out.val :
          /\ IsErrorString(out.val[q1])
          /\ out.val[q2] = <<"text">>

\* the audio and vision steps of process_whiteboard_meeting succeeded (the
\* describe request v was answered) and the combining call (the model list
\* v + 1, the generation v + 2) failed
CombineFailedAfter(v) ==
    /\ log[v].api = "ollama.generate"
    /\ resp[v].ok
    /\ out.st # "pend"
    /\ ~(Len(resp) = v + 2 /\ resp[v + 2].ok)

\* C8: when the audio and vision steps succeeded and the combining call
\* fails, process_whiteboard_meeting returns the failure notice, an error
\* field, the transcript and the whiteboard description
C8_CombineFailureDegrades ==
    call.op = "MultimodalPipeline.process_whiteboard_meeting"
    => \A v \in 1..Len(resp) :
          CombineFailedAfter(v)
          => /\ out.st = "ok"
             /\ out.val.combined_notes = <<"Failed to combine sources.">>
             /\ "error" \in DOMAIN out.val
             /\ out.val.transcript
                  = TranscribeStep(obj.audio_pipeline.transcriber).val.full_text
             /\ out.val.whiteboard_description = strip(resp[v].val)

\* a degraded result with a transcript and a whiteboard description
C8_Witness ==
    /\ call.op = "MultimodalPipeline.process_whiteboard_meeting"
    /\ \E v \in 1..Len(resp) : CombineFailedAfter(v)
    /\ out.st = "ok"
    /\ out.val.transcript # <<>>
    /\ out.val.whiteboard_description # <<>>

\* C9: in every ReceiptParser.parse, an ocr_cleanup request is issued before
\* the receipt_extraction request
C9_CleanupBeforeExtraction ==
    call.op = "ReceiptParser.parse"
    => \A i \in 1..Len(log) :
          IsChat(i, "receipt_extraction")
          => \E j \in 1..(i - 1) : IsChat(j, "ocr_cleanup")

\* C10: every request of VisionPipeline.process uses the model name resolved
\* at construction: the vision model for the image, the text model for the
\* generation
C10_RequestsUseConstructedModels ==
    call.op = "VisionPipeline.process"
    => \A i \in 1..Len(log) :
          /\ log[i].api = "ollama.generate" => log[i].model = obj.vision_analyzer.model
          /\ log[i].api = "ollama.chat" => log[i].model = obj.llm_client.model

\* the step before the structured extraction succeeded: the transcription
\* of generate, the vision extraction of parse
InputStepSucceeded ==
    \E k \in 1..Len(resp) :
        /\ log[k].api = (IF call.op = "ReceiptParser.parse"
                         THEN "ollama.generate" ELSE "mlx_whisper.transcribe")
        /\ resp[k].ok

\* the text generation with the given template was answered, and JSON was
\* extracted from the answer
ExtractionSucceeded(prompt_type) ==
    \E i \in 1..Len(resp) :
        /\ IsChat(i, prompt_type)
        /\ resp[i].ok
        /\ extract_json([resp |-> <<>>, log |-> <<>>, loaded |-> FALSE],
                        resp[i].val).st = "ok"

\* the prompt template of the call's structured extraction
PrimaryPrompt ==
    IF call.op = "ReceiptParser.parse" THEN "receipt_extraction" ELSE "meeting_minutes"

\* C11: in MeetingMinutesGenerator.generate and ReceiptParser.parse, once the
\* input step has succeeded, a call that ends without a successful generation
\* and JSON extraction ends by raising ModelError, never by returning
C11_ExtractionFailureIsFatal ==
    (/\ call.op \in {"MeetingMinutesGenerator.generate", "ReceiptParser.parse"}
     /\ out.st # "pend"
     /\ InputStepSucceeded
     /\ ~ExtractionSucceeded(PrimaryPrompt))
    => out.st = "raise" /\ out.exc.type = "ModelError"

\* a parse whose extraction request was answered with text that holds no JSON
C11_Witness ==
    /\ call.op = "ReceiptParser.parse"
    /\ Len(resp) >= 1
    /\ IsChat(Len(resp), "receipt_extraction")
    /\ resp[Len(resp)].ok
    /\ ~ExtractionSucceeded("receipt_extraction")
    /\ out.st = "raise"

\* the describe request of VisionPipeline.process (its first request) was
\* answered, the call has ended, and its reasoning step (the model list, then
\* the generation, its third request) did not produce a text
ReasoningFailed ==
    /\ Len(resp) >= 1
    /\ resp[1].ok
    /\ out.st # "pend"
    /\ ~(Len(resp) = 3 /\ resp[3].ok)

\* C12: once VisionPipeline.process has the image description, a failure of
\* the reasoning step does not raise: the result carries the error under
\* reasoning_error and the description unchanged
C12_ReasoningFailureIsRecorded ==
    (call.op = "VisionPipeline.process" /\ ReasoningFailed)
    => /\ out.st = "ok"
       /\ "reasoning_error" \in DOMAIN out.val
       /\ out.val.reasoning_error # <<>>
       /\ out.val.description = strip(resp[1].val)

\* a result with a description and the error of a failed generation request
C12_Witness ==
    /\ call.op = "VisionPipeline.process"
    /\ ReasoningFailed
    /\ Len(resp) = 3
    /\ out.st = "ok"
    /\ out.val.description # <<>>

\* the number of requests of the vision pipeline in DiagramExplainer.explain:
\* the describe request, the model list and, for an available model, the
\* generation
PipelineRequests == IF Len(log) >= 3 /\ log[3].api = "ollama.chat" THEN 3 ELSE 2

\* the vision pipeline of the explain call has returned
PipelineReturned ==
    /\ Len(resp) >= PipelineRequests
    /\ resp[1].ok

\* the explanation explain takes from the pipeline's result: the generated
\* explanation, or the description when the reasoning step failed
PipelineExplanation ==
    IF PipelineRequests = 3 /\ resp[3].ok THEN resp[3].val ELSE strip(resp[1].val)

\* the requests issued after the vision pipeline returned, by backend call
RequestsAfterPipeline(api) ==
    {i \in (PipelineRequests + 1)..Len(log) : log[i].api = api}

\* the enhancement generation was answered with a text
EnhancementAnswered ==
    /\ Len(resp) = PipelineRequests + 2
    /\ resp[Len(resp)].ok

CleanupFailed ==
    /\ Len(resp) >= 2
    /\ resp[1].ok
    /\ out.st # "pend"
    /\ ~(Len(resp) = 3 /\ resp[3].ok)

\* C14: OCRExtractor.extract_text with cleanup requested: when the vision
\* extraction succeeds and the cleanup generation fails, the call returns the
\* raw extracted text
C14_CleanupFailureReturnsRawText ==
    (call.op = "OCRExtractor.extract_text" /\ call.args.cleanup /\ CleanupFailed)
    => out.st = "ok" /\ out.val = strip(resp[1].val)

\* a raw text returned after the cleanup chat failed in the backend
C14_Witness ==
    /\ call.op = "OCRExtractor.extract_text"
    /\ call.args.cleanup
    /\ CleanupFailed
    /\ Len(resp) = 3
    /\ out.st = "ok"
    /\ out.val = <<"desc">>

\* the path is missing, of a format that is neither a listed audio suffix nor
\* an audio MIME type, or over the size limit
InvalidAudio(path) ==
    \/ ~path.exists
    \/ /\ path.suffix \notin SUPPORTED_AUDIO_FORMATS
       /\ guess_type(path) # "audio/ogg"
    \/ path.size_mb > MAX_AUDIO_FILE_SIZE_MB

TargetModel == Or(call.args.model, obj.model)

\* the availability query was answered, and did not confirm the target model
NotConfirmedAvailable ==
    /\ Len(resp) >= 1
    /\ log[1].api = "ollama.list"
    /\ (~resp[1].ok \/ TargetModel \notin resp[1].val)

\* C16: when the availability query fails or its list lacks the target model,
\* generate raises ModelError naming the model with the installation hint,
\* the query's own failure is not what is raised, and no chat request is sent
C16_UnavailableModelIsModelError ==
    (call.op = "OllamaClient.generate" /\ NotConfirmedAvailable)
    => /\ out.st = "raise"
       /\ out.exc.type = "ModelError"
       /\ out.exc.msg = <<"Model '", TargetModel, "' is not available. ",
                          "Install it with: ollama pull ", TargetModel>>
       /\ \A i \in DOMAIN log : log[i].api # "ollama.chat"

\* the availability query itself failed
C16_Witness ==
    /\ call.op = "OllamaClient.generate"
    /\ Len(resp) = 1
    /\ ~resp[1].ok
    /\ out.st = "raise"

\* the pulls from the streamed response that were answered
Pulls == {i \in DOMAIN resp : log[i].api = "stream.next"}

\* the stream was interrupted, or delivered a chunk without the attributes of
\* a chat chunk
StreamBroken ==
    \E i \in Pulls :
        \/ ~resp[i].ok
        \/ /\ ~resp[i].val.end
           /\ ~({"message", "content"} \subseteq resp[i].val.attrs)

RECURSIVE DeliveredFrom(_)
\* the non-empty texts the backend delivered from pull i on
DeliveredFrom(i) ==
    IF i > Len(resp) THEN <<>>
    ELSE IF i \in Pulls /\ resp[i].ok /\ resp[i].val.content # <<>>
    THEN <<resp[i].val.content>> \o DeliveredFrom(i + 1)
    ELSE DeliveredFrom(i + 1)

\* C17: consuming a stream that is interrupted or delivers a malformed chunk
\* ends in the streaming-failure error, and a stream consumed to a normal
\* end has yielded all the text the backend delivered
C17_BrokenStreamEndsInStreamingFailure ==
    (call.op = "OllamaClient.generate(stream=True)" /\ out.st \in {"ok", "raise"})
    => /\ StreamBroken
          => /\ out.st = "raise"
             /\ out.exc.type = "ModelError"
             /\ Head(out.exc.msg) = "Streaming failed: "
       /\ out.st = "ok" => out.val = DeliveredFrom(1)

\* the requests that do the work of a pipeline step
WorkRequests == {"mlx_whisper.transcribe", "ollama.generate", "ollama.chat"}

\* the answered requests of the call that failed
FailedRequests == {i \in DOMAIN resp : ~resp[i].ok}

\* the value the call returned stands in for a failed step
HoldsPlaceholder ==
    CASE call.op = "AudioPipeline.process" ->
            \/ /\ "summary" \in DOMAIN out.val
               /\ out.val.summary = <<"Summary generation failed.">>
            \/ /\ "action_items" \in DOMAIN out.val
               /\ out.val.action_items = <<"Action item extraction failed.">>
      [] call.op = "VisionPipeline.process" -> "reasoning_error" \in DOMAIN out.val
      [] call.op = "OCRExtractor.extract_text" -> out.val = strip(resp[1].val)
      [] OTHER -> FALSE

RaisedError(i) == ~resp[i].ok /\ resp[i].val = FailResp.val
WasInterrupted(i) == ~resp[i].ok /\ resp[i].val = InterruptResp.val

\* the handler returned and write_output returned
OutputWritten == Len(resp) = 2 /\ resp[1].ok /\ resp[2].ok

\* C19: main exits with 0 exactly when the handler returned and its output
\* was written, with 1 when the handler or the writing raised an error, with
\* 130 when the run was interrupted, and with no other code
C19_ExitCodes ==
    (call.op = "main" /\ out.st # "pend")
    => /\ out.st = "ok"
       /\ out.val \in {0, 1, 130}
       /\ out.val = 0 <=> OutputWritten
       /\ (\E i \in DOMAIN resp : RaisedError(i)) => out.val = 1
       /\ (\E i \in DOMAIN resp : WasInterrupted(i)) => out.val = 130

\* an interrupt while the output was being written
C19_Witness ==
    /\ call.op = "main"
    /\ Len(resp) = 2
    /\ WasInterrupted(2)
    /\ out.st = "ok"
    /\ out.val = 130

RECURSIVE Flatten(_)
\* the groups joined back into one list
Flatten(groups) ==
    IF groups = <<>> THEN <<>> ELSE Head(groups) \o Flatten(Tail(groups))

RECURSIVE GroupDuration(_)
\* the sum of (end - start) over a group
GroupDuration(group) ==
    IF group = <<>> THEN 0
    ELSE (Head(group)[2] - Head(group)[1]) + GroupDuration(Tail(group))

\* C20: the groups chunk_transcript_by_segments yields hold every input
\* segment exactly once and in order, none is empty, and each lasts at most
\* the maximum duration unless it is one single oversized segment
C20_GroupsPartitionSegments ==
    (call.op = "chunk_transcript_by_segments" /\ out.st = "ok")
    => /\ Flatten(out.val) = call.args.segments
       /\ \A g \in DOMAIN out.val :
             /\ out.val[g] # <<>>
             /\ \/ GroupDuration(out.val[g]) <= call.args.max_duration_seconds
                \/ Len(out.val[g]) = 1

\* an oversized segment in a group of its own next to a group of two
C20_Witness ==
    /\ call.op = "chunk_transcript_by_segments"
    /\ out.st = "ok"
    /\ \E g, h \in DOMAIN out.val :
          /\ Len(out.val[g]) = 1
          /\ GroupDuration(out.val[g]) > call.args.max_duration_seconds
          /\ Len(out.val[h]) = 2

\* ceil(a / b) for b > 0
Ceil(a, b) == (a + b - 1) \div b

\* C21: for every transcript and every max_tokens >= 1,
\* chunk_transcript_by_tokens yields finitely many chunks, the chunks joined
\* by single spaces are the whitespace-normalized transcript, and there are
\* ceil(wordCount / wordsPerChunk) of them, wordsPerChunk = floor(max_tokens / 1.3)
C21_ChunksRebuildTranscript ==
    (call.op = "chunk_transcript_by_tokens" /\ out.st # "idle")
    => /\ out.st = "ok"
       /\ join(<<" ">>, out.val) = join(<<" ">>, split(call.args.transcript))
       /\ Len(out.val) = Ceil(Len(split(call.args.transcript)),
                              words_per_chunk(call.args.max_tokens))

\* json.loads of a JSON text on its own
Decoded(body) == json_loads([resp |-> <<>>, log |-> <<>>, loaded |-> FALSE], body)

\* C22: on a text that wraps one valid JSON object or array of any nesting
\* depth in prose or in a json-tagged fence, extract_json returns exactly
\* that JSON value
C22_ExtractsWrappedJson ==
    (call.op = "extract_json" /\ out.st # "idle")
    => \A w \in Wrappers, body \in JsonBodies :
          call.args.text = Wrap(w, body)
          => out.st = "ok" /\ out.val = Decoded(body).val

\* the chunks of the transcript under summarization
TranscriptChunks ==
    chunk_transcript_by_tokens([resp |-> <<>>, log |-> <<>>, loaded |-> FALSE],
                               call.args.transcript, MAX_TRANSCRIPT_TOKENS).val

\* the text-generation requests of the call, in order
ChatRequests == SelectSeq(log, LAMBDA r : r.api = "ollama.chat")

\* the answers to the first n text-generation requests of a call that returned
\* (every generation is one availability query and one chat)
ChatAnswers(n) == [k \in 1..n |-> resp[2 * k].val]

\* the messages of a summarize request over a text
SummaryMessages(text) ==
    LET template == IF call.args.style = "concise" THEN PROMPTS.summary
                    ELSE PROMPTS.detailed_summary
    IN  <<[role |-> "system", content |-> template.system],
          [role |-> "user", content |-> Subst(template.user, "{transcript}" :> text)]>>

\* the returned summary is the last answer in the requested output format
ReturnsLastAnswerFormatted ==
    out.val = IF call.args.format_output = "markdown"
              THEN format_markdown_summary(resp[Len(resp)].val, "Summary")
              ELSE resp[Len(resp)].val

\* the two-pass summarization of n >= 2 chunks: n requests over the chunks in
\* order, then one over their plain answers joined by blank lines
TwoPass(n) ==
    /\ Len(ChatRequests) = n + 1
    /\ \A i \in 1..n : ChatRequests[i].arg = SummaryMessages(TranscriptChunks[i])
    /\ ChatRequests[n + 1].arg = SummaryMessages(join(<<"\n\n">>, ChatAnswers(n)))
    /\ ReturnsLastAnswerFormatted

\* one request, over the given text
OnePass(text) ==
    /\ Len(ChatRequests) = 1
    /\ ChatRequests[1].arg = SummaryMessages(text)
    /\ ReturnsLastAnswerFormatted

SummarizeLongReturned ==
    call.op = "TranscriptSummarizer.summarize_long_transcript" /\ out.st = "ok"

\* C23: summarize_long_transcript makes one request over the transcript itself
\* when the transcript fits in one chunk (the empty transcript included), and
\* n + 1 requests when it has n >= 2 chunks: the chunks in order in text form,
\* then their summaries joined by blank lines, in the requested format
C23_OneRequestOverTranscriptOrTwoPass ==
    SummarizeLongReturned
    => IF Len(TranscriptChunks) <= 1 THEN OnePass(call.args.transcript)
       ELSE TwoPass(Len(TranscriptChunks))

\* what the code does: a transcript without words yields no chunk and its one
\* request is over the empty text, not over the transcript
SummarizeLongAsCoded ==
    SummarizeLongReturned
    => CASE Len(TranscriptChunks) = 0 -> OnePass(<<>>)
         [] Len(TranscriptChunks) = 1 -> OnePass(call.args.transcript)
         [] OTHER -> TwoPass(Len(TranscriptChunks))

\* the positions of the call's model-load requests
LoadRequests == {i \in 1..Len(log) : log[i].api = "mlx_whisper.load_model"}

\* the positions of the call's backend transcription requests
TranscribeRequests == {i \in 1..Len(log) : log[i].api = "mlx_whisper.transcribe"}

\* the load request at position i was answered with a failure
LoadFailed(i) == i \in LoadRequests /\ i <= Len(resp) /\ ~resp[i].ok

\* the tokens of a text
Tokens(text) == {text[i] : i \in 1..Len(text)}

\* C24: on one Transcriber client the model is not loaded at construction, is
\* loaded before the first backend transcription request, is never requested
\* again once a load has succeeded, and a load failure fails the call with a
\* ModelError that names the model
C24_LazyLoadOnce ==
    /\ call = NoCall => ~loaded /\ log = <<>>
    /\ call.op = "Transcriber.transcribe" =>
        /\ TranscribeRequests # {} => loaded
        /\ \A i \in TranscribeRequests :
              call.loaded \/ \E j \in LoadRequests : j < i /\ resp[j].ok
        /\ call.loaded => LoadRequests = {}
        /\ Cardinality(LoadRequests) <= 1
        /\ \A i \in LoadRequests : i <= Len(resp) /\ resp[i].ok => loaded
        /\ \A i \in 1..Len(log) :
              LoadFailed(i) =>
                  /\ out.st = "raise"
                  /\ out.exc.type = "ModelError"
                  /\ obj.model_name \in Tokens(out.exc.msg)
                  /\ ~loaded
                  /\ TranscribeRequests = {}

\* a later call on a client whose model is loaded has asked the backend to
\* transcribe without a load request
C24_Witness ==
    /\ call.op = "Transcriber.transcribe"
    /\ call.loaded
    /\ TranscribeRequests # {}
    /\ LoadRequests = {}

\* transcribe has returned a TranscriptionResult
TranscribeReturned == call.op = "Transcriber.transcribe" /\ out.st = "ok"

\* the segments the backend reported to the call that returned
ReportedSegments == Get(resp[Len(resp)].val, "segments", <<>>)

\* C25: every segment of a TranscriptionResult returned by transcribe has
\* start >= 0 and end >= start, whatever segment list the backend reported, and
\* full_text is the segments' trimmed texts joined by single spaces
C25_SegmentsOrderedAndTextJoined ==
    TranscribeReturned =>
        /\ \A i \in 1..Len(out.val.segments) :
              /\ out.val.segments[i].start >= 0
              /\ out.val.segments[i].end >= out.val.segments[i].start
        /\ Len(out.val.segments) = Len(ReportedSegments)
        /\ out.val.full_text =
              join(<<" ">>, [i \in 1..Len(ReportedSegments) |->
                                strip(Get(ReportedSegments[i], "text", <<>>))])

\* full_text alone: the trimmed texts joined by single spaces
TextJoined ==
    TranscribeReturned =>
        out.val.full_text =
            join(<<" ">>, [i \in 1..Len(ReportedSegments) |->
                              strip(Get(ReportedSegments[i], "text", <<>>))])

\* steps 1 and 2 of AudioPipeline.process on the responses the call has
\* received: the transcription, then the summarization when it is requested
StepsBeforeExtraction ==
    IF call.args.summarize THEN SummarizeStep ELSE TranscribeStep(obj.transcriber)

\* the action-item extraction of AudioPipeline.process, run once steps 1 and 2
\* are over (summarization succeeded or raised)
ExtractStep ==
    LET after(s) ==
            IF s.st = "pend" THEN s
            ELSE extract_action_items(obj.summarizer, s.c,
                                      TranscribeStep(obj.transcriber).val.full_text)
    IN  after(StepsBeforeExtraction)

\* transcription succeeded and steps 1 and 2 are over
ReachedExtraction ==
    /\ call.op = "AudioPipeline.process"
    /\ call.args.extract_actions
    /\ TranscribeStep(obj.transcriber).st = "ok"
    /\ StepsBeforeExtraction.st # "pend"

\* the summary entry of the result is what step 2 left
SummaryAsLeft ==
    IF ~call.args.summarize THEN "summary" \notin DOMAIN out.val
    ELSE out.val.summary = IF SummarizeStep.st = "raise"
                           THEN <<"Summary generation failed.">>
                           ELSE SummarizeStep.val

\* C26: AudioPipeline.process with extract_actions=true attempts the
\* action-item extraction after the summarize step whether or not the summary
\* succeeded; an extraction failure never raises, and the result then holds
\* the placeholder under action_items with transcript_text and summary as
\* they were
C26_ExtractionAttemptedAndFailureKept ==
    ReachedExtraction =>
        /\ Len(log) > Len(StepsBeforeExtraction.c.log)
        /\ log[Len(StepsBeforeExtraction.c.log) + 1].api = "ollama.list"
        /\ out.st # "raise"
        /\ ExtractStep.st = "raise" =>
            /\ out.st = "ok"
            /\ out.val.action_items = <<"Action item extraction failed.">>
            /\ out.val.transcript_text = TranscribeStep(obj.transcriber).val.full_text
            /\ SummaryAsLeft

\* a call that returned its transcript after both its summarization and its
\* action-item extraction failed
C26_Witness ==
    /\ ReachedExtraction
    /\ call.args.summarize
    /\ SummarizeStep.st = "raise"
    /\ ExtractStep.st = "raise"
    /\ out.st = "ok"
    /\ out.val.transcript_text # <<>>

\* the keys step 2 of VisionPipeline.process can add to the result
ReasoningKeys == {"reasoning", "explanation", "answer", "reasoning_error"}

\* the key under which a reasoning type stores its success
SuccessKey(reasoning_type) ==
    CASE reasoning_type = "description" -> "reasoning"
      [] reasoning_type = "diagram" -> "explanation"
      [] reasoning_type = "qa" -> "answer"
      [] OTHER -> None

VisionProcessReturned == call.op = "VisionPipeline.process" /\ out.st = "ok"

\* C27: a result returned by VisionPipeline.process holds description and
\* exactly one of reasoning, explanation, answer, reasoning_error, for every
\* reasoning type; a success key is the one of the selected reasoning type
C27_OneReasoningKey ==
    VisionProcessReturned =>
        /\ "description" \in DOMAIN out.val
        /\ Cardinality(DOMAIN out.val \cap ReasoningKeys) = 1
        /\ DOMAIN out.val \cap ReasoningKeys
              \subseteq {SuccessKey(call.args.reasoning_type), "reasoning_error"}

\* a diagram explanation was returned
C27_Witness ==
    /\ VisionProcessReturned
    /\ call.args.reasoning_type = "diagram"
    /\ "explanation" \in DOMAIN out.val

\* C28: the only error AudioPipeline.process raises is TranscriptionError; an
\* invalid audio input (missing, unsupported, oversized) and a model-load
\* failure of the transcription step reach the caller as TranscriptionError
C28_OnlyTranscriptionErrorRaised ==
    call.op = "AudioPipeline.process" =>
        /\ out.st = "raise" => out.exc.type = "TranscriptionError"
        /\ InvalidAudio(call.args.audio_path) =>
              /\ out.st = "raise"
              /\ out.exc.type = "TranscriptionError"
              /\ log = <<>>
        /\ (\E i \in 1..Len(log) : LoadFailed(i)) =>
              /\ out.st = "raise"
              /\ out.exc.type = "TranscriptionError"

\* a call on a valid recording whose model load failed has raised
C28_Witness ==
    /\ call.op = "AudioPipeline.process"
    /\ ~InvalidAudio(call.args.audio_path)
    /\ LoadFailed(1)
    /\ out.st = "raise"

\* request k of the call is a text generation that the backend failed
ChatFailed(k) == k <= Len(resp) /\ log[k].api = "ollama.chat" /\ ~resp[k].ok

\* the number of text-generation requests among the first k requests
ChatsUpTo(k) == Cardinality({j \in 1..k : log[j].api = "ollama.chat"})

\* C29: summarize_long_transcript over n >= 2 chunks, when the generation for
\* chunk i fails: no request follows it (no later chunk, no final pass), and
\* the call raises ModelError, returning no partial summary
C29_ChunkFailureStopsSummarization ==
    (/\ call.op = "TranscriptSummarizer.summarize_long_transcript"
     /\ Len(TranscriptChunks) >= 2)
    => \A k \in 1..Len(log) :
          (ChatFailed(k) /\ ChatsUpTo(k) <= Len(TranscriptChunks)) =>
              /\ Len(log) = k
              /\ ChatRequests[ChatsUpTo(k)].arg =
                    SummaryMessages(TranscriptChunks[ChatsUpTo(k)])
              /\ out.st = "raise"
              /\ out.exc.type = "ModelError"

\* the generation for the second chunk failed and the call raised
C29_Witness ==
    /\ call.op = "TranscriptSummarizer.summarize_long_transcript"
    /\ Len(TranscriptChunks) >= 2
    /\ ChatFailed(4)
    /\ out.st = "raise"

\* the vision pipeline's part of the explain call, on the responses received
PipelineStep ==
    VisionPipeline_process(obj.vision_pipeline,
                           [resp |-> resp, log |-> <<>>, loaded |-> call.loaded],
                           call.args.image_path, "diagram", NoneText)

\* explain was called with a detail level other than "technical" and its
\* vision pipeline has returned a result
NonTechnicalPipelineResult ==
    /\ call.op = "DiagramExplainer.explain"
    /\ call.args.detail_level # "technical"
    /\ PipelineStep.st = "ok"

\* the explanation explain takes from the pipeline's result
TakenExplanation ==
    IF "explanation" \in DOMAIN PipelineStep.val THEN PipelineStep.val.explanation
    ELSE PipelineStep.val.description

\* C30: DiagramExplainer.explain with a non-technical detail level returns the
\* raw image description when the pipeline's reasoning step failed (no
\* explanation key), and raises ModelError only when the explanation it would
\* return is empty
C30_DescriptionIsTheFallback ==
    NonTechnicalPipelineResult =>
        /\ out.st \in {"ok", "raise"}
        /\ ("explanation" \notin DOMAIN PipelineStep.val
            /\ PipelineStep.val.description # <<>>) =>
              /\ out.st = "ok"
              /\ out.val = PipelineStep.val.description
              /\ out.val = strip(resp[1].val)
        /\ out.st = "raise" =>
              /\ out.exc.type = "ModelError"
              /\ TakenExplanation = <<>>
        /\ TakenExplanation = <<>> => out.st = "raise"

\* the reasoning request failed and explain returned the image description
C30_Witness ==
    /\ NonTechnicalPipelineResult
    /\ "reasoning_error" \in DOMAIN PipelineStep.val
    /\ Len(resp) = 3
    /\ ~resp[3].ok
    /\ out.st = "ok"
    /\ out.val = <<"desc">>

====
